---------------------------- MODULE Spec2Model ----------------------------
(* A model of xarray-ome-ngff (version 0.4 variant): the coordinate <->    *)
(* transform codec, the fusion of a base chain with a dataset chain, and   *)
(* the reading of arrays from a Zarr hierarchy.                             *)
(*                                                                          *)
(* Numbers are integers: every sample, scale factor and offset of the      *)
(* model is an integer-valued float, on which float(), abs(), +, * and     *)
(* numpy.round are exact.                                                   *)
EXTENDS Integers, Sequences, FiniteSets, TLC

VARIABLES
    op,       \* name of the function called last ("none" before any call)
    args,     \* the arguments of that call
    ret,      \* its outcome: [status |-> "ok", ...] or [status |-> <exception>]
    origin,   \* the earlier call whose result was passed on to this call
    store,    \* the Zarr hierarchy: the node at every location
    pc,       \* where read_array stands: "idle", "loop" or "done"
    parent,   \* read_array: the ancestor the loop looks at
    remaining \* read_array: the iterations of the loop still to run

vars == <<op, args, ret, origin, store, pc, parent, remaining>>

-----------------------------------------------------------------------------
(* Bounds of the model.                                                     *)

MaxLen == 2        \* samples per coordinate / entries per shape axis
MaxRank == 2       \* axes per array
MaxChain == 2      \* transforms per chain given to the decoder
MaxDepth == 2      \* groups above an array of the hierarchy
MaxYield == 6      \* groups taken from one iter_parents generator

-----------------------------------------------------------------------------
(* Python values.                                                           *)

None == "None"                       \* the None of a unit or a type

NoPrecision == <<>>                  \* transform_precision=None
Precision(p) == <<p>>                \* transform_precision=p

Abs(x) == IF x < 0 THEN -x ELSE x
Min(a, b) == IF a < b THEN a ELSE b

\* (0,) * n
Zeros(n) == [i \in 1..n |-> 0]

\* 10 ** n
Pow10(n) == 10 ^ n

\* numpy.round(x, decimals) on an integer-valued float: nothing to round for
\* decimals >= 0; for decimals < 0, rint(x / 10^-decimals) * 10^-decimals,
\* rint rounding halves to the even neighbour.
np_round(x, decimals) ==
    IF decimals >= 0 THEN x
    ELSE LET m == Pow10(-decimals)
             q == x \div m
             r == x % m
         IN  IF 2 * r < m THEN q * m
             ELSE IF 2 * r > m THEN (q + 1) * m
             ELSE IF q % 2 = 0 THEN q * m ELSE (q + 1) * m

-----------------------------------------------------------------------------
(* pydantic-ome-ngff value objects.                                         *)

Axis(name, unit, type) == [name |-> name, unit |-> unit, type |-> type]
VectorScale(scale) == [type |-> "scale", scale |-> scale]
VectorTranslation(translation) == [type |-> "translation", translation |-> translation]
Identity == [type |-> "identity"]
PathScale(path) == [type |-> "scale", path |-> path]
PathTranslation(path) == [type |-> "translation", path |-> path]

\* isinstance(getattr(tx, "path", None), str)
HasPath(tx) == "path" \in DOMAIN tx

-----------------------------------------------------------------------------
(* The pint unit registry, as far as the model's units go.                  *)

\* the unit names the registry resolves, and the unit expressions it parses
KnownUnits == {"nm", "nanometer", "um", "micrometer", "km", "kilometer", "m", "meter",
               "s", "second", "kelvin"}
CompoundUnits == {"nm/s"}

\* ureg.get_name(units, case_sensitive=True)
ureg_get_name(units) ==
    CASE units = "nm" -> "nanometer"
      [] units = "um" -> "micrometer"
      [] units = "km" -> "kilometer"
      [] units = "m" -> "meter"
      [] units = "s" -> "second"
      [] OTHER -> units

\* ureg.get_dimensionality(units): the base dimensions of the unit
ureg_get_dimensionality(units) ==
    CASE units \in {"nm", "nanometer", "um", "micrometer",
                    "km", "kilometer", "m", "meter"} -> {"[length]"}
      [] units \in {"s", "second"} -> {"[time]"}
      [] units = "kelvin" -> {"[temperature]"}
      [] units = "nm/s" -> {"[length]", "[time]"}
      [] OTHER -> {}

\* coord.attrs.get(key, None)
AttrGet(attrs, key) == IF key \in DOMAIN attrs THEN attrs[key] ELSE None

-----------------------------------------------------------------------------
(* transforms_from_coords: Axis, scale and translation of every coordinate. *)
(* coords is the ordered dict of coordinates, a sequence of                 *)
(* [dim, dims, data, attrs]: the key, coord.dims, the samples, coord.attrs. *)
(* A result carries the warnings that were emitted.                         *)

\* the Axis type of one coordinate (lines 174-189)
AxisType(attrs, units, infer_axis_type) ==
    IF AttrGet(attrs, "type") = None /\ infer_axis_type
    THEN LET unit_dimensionality == ureg_get_dimensionality(units)
         IN  IF "[length]" \in unit_dimensionality THEN "space"
             ELSE IF "[time]" \in unit_dimensionality THEN "time"
             ELSE None
    ELSE AttrGet(attrs, "type")

\* the warnings of the inference of one Axis type (lines 176-185)
AxisTypeWarnings(attrs, units, infer_axis_type) ==
    IF /\ AttrGet(attrs, "type") = None
       /\ infer_axis_type
       /\ Cardinality(ureg_get_dimensionality(units)) > 1
    THEN <<"compound unit">>
    ELSE <<>>

\* a variant taking the last sample for the first
CoordTranslate_LastSample(data) == data[Len(data)]

\* the translation of one coordinate (line 163)
CoordTranslate(data) == data[1]

\* a variant keeping the sign of the difference
CoordScale_Signed(data) ==
    IF Len(data) > 1 THEN data[2] - data[1] ELSE 1

\* the scale of one coordinate (lines 167-170)
CoordScale(data) ==
    IF Len(data) > 1 THEN Abs(data[2] - data[1]) ELSE 1

\* the unit of one coordinate (lines 171-173)
CoordUnits(attrs, normalize_units) ==
    IF normalize_units /\ AttrGet(attrs, "units") # None
    THEN ureg_get_name(AttrGet(attrs, "units"))
    ELSE AttrGet(attrs, "units")

\* the exception the loop body raises on one coordinate, "ok" if none
CoordFailure(c, normalize_units, infer_axis_type) ==
    IF Len(c.dims) # 1 THEN "ValueError"
    ELSE IF c.dims # <<c.dim>> THEN "ValueError"
    ELSE IF Len(c.data) = 0 THEN "IndexError"
    ELSE IF AttrGet(c.attrs, "units") = None THEN "ok"
    ELSE IF normalize_units /\ AttrGet(c.attrs, "units") \notin KnownUnits
         THEN "UndefinedUnitError"
    ELSE IF /\ AttrGet(c.attrs, "type") = None /\ infer_axis_type
            /\ AttrGet(c.attrs, "units") \notin KnownUnits \cup CompoundUnits
         THEN "UndefinedUnitError"
    ELSE "ok"

RECURSIVE tfc_loop(_, _, _, _, _, _, _)
tfc_loop(coords, i, translate, scale, axes, normalize_units, infer_axis_type) ==
    IF i > Len(coords)
    THEN [status |-> "ok", axes |-> axes, scale |-> scale, translate |-> translate]
    ELSE LET c == coords[i]
             failure == CoordFailure(c, normalize_units, infer_axis_type)
         IN  IF failure # "ok" THEN [status |-> failure]
             ELSE LET units == CoordUnits(c.attrs, normalize_units)
                      type == AxisType(c.attrs, units, infer_axis_type)
                  IN  tfc_loop(coords, i + 1,
                               Append(translate, CoordTranslate(c.data)),
                               Append(scale, CoordScale(c.data)),
                               Append(axes, Axis(c.dim, units, type)),
                               normalize_units, infer_axis_type)

\* the warnings the loop emits on the coordinates from coordinate i on
RECURSIVE tfc_warnings(_, _, _, _)
tfc_warnings(coords, i, normalize_units, infer_axis_type) ==
    IF i > Len(coords) THEN <<>>
    ELSE AxisTypeWarnings(coords[i].attrs,
                          CoordUnits(coords[i].attrs, normalize_units), infer_axis_type)
         \o tfc_warnings(coords, i + 1, normalize_units, infer_axis_type)

RoundAll(xs, transform_precision) ==
    IF transform_precision = NoPrecision THEN xs
    ELSE [i \in 1..Len(xs) |-> np_round(xs[i], transform_precision[1])]

transforms_from_coords(coords, normalize_units, infer_axis_type, transform_precision) ==
    LET r == tfc_loop(coords, 1, <<>>, <<>>, <<>>, normalize_units, infer_axis_type)
    IN  IF r.status # "ok" THEN r
        ELSE [status |-> "ok",
              axes |-> r.axes,
              warnings |-> tfc_warnings(coords, 1, normalize_units, infer_axis_type),
              transforms |-> << VectorScale(RoundAll(r.scale, transform_precision)),
                                VectorTranslation(RoundAll(r.translate, transform_precision)) >>]

-----------------------------------------------------------------------------
(* coords_from_transforms: the coordinates of an array of a given shape.    *)
(* A coordinate is [dims, data, attrs].                                      *)

\* numpy.arange(n, dtype="float")
arange(n) == [k \in 1..n |-> k - 1]

\* a variant that tests the length of a scale only
TxFailure_ScaleOnly(tx, naxes) ==
    IF HasPath(tx) THEN "path"
    ELSE IF tx.type = "translation" THEN "ok"
    ELSE IF tx.type = "scale"
         THEN IF Len(tx.scale) # naxes THEN "scale length" ELSE "ok"
    ELSE IF tx.type = "identity" THEN "ok"
    ELSE "transform type"

\* a variant without the test for a path: a transform with a path falls
\* through to the last branch
TxFailure_NoPathTest(tx, naxes) ==
    IF HasPath(tx) THEN "transform type"
    ELSE IF tx.type = "translation"
         THEN IF Len(tx.translation) # naxes THEN "translation length" ELSE "ok"
    ELSE IF tx.type = "scale"
         THEN IF Len(tx.scale) # naxes THEN "scale length" ELSE "ok"
    ELSE IF tx.type = "identity" THEN "ok"
    ELSE "transform type"

\* the exception one transform raises when applied on axis idx, "ok" if none
TxFailure(tx, naxes) ==
    IF HasPath(tx) THEN "path"
    ELSE IF tx.type = "translation"
         THEN IF Len(tx.translation) # naxes THEN "translation length" ELSE "ok"
    ELSE IF tx.type = "scale"
         THEN IF Len(tx.scale) # naxes THEN "scale length" ELSE "ok"
    ELSE IF tx.type = "identity" THEN "ok"
    ELSE "transform type"

\* a variant using the parameter of the first axis on every axis
ApplyTx_FirstParameter(tx, base_coord, idx) ==
    IF tx.type = "translation"
    THEN [k \in 1..Len(base_coord) |-> base_coord[k] + tx.translation[1]]
    ELSE IF tx.type = "scale"
    THEN [k \in 1..Len(base_coord) |-> base_coord[k] * tx.scale[1]]
    ELSE base_coord

\* one transform applied to the whole base_coord of axis idx
ApplyTx(tx, base_coord, idx) ==
    IF tx.type = "translation"
    THEN [k \in 1..Len(base_coord) |-> base_coord[k] + tx.translation[idx]]
    ELSE IF tx.type = "scale"
    THEN [k \in 1..Len(base_coord) |-> base_coord[k] * tx.scale[idx]]
    ELSE base_coord

\* the inner loop over the transforms, from transform j on
RECURSIVE cft_transforms(_, _, _, _, _)
cft_transforms(transforms, j, base_coord, idx, naxes) ==
    IF j > Len(transforms) THEN [status |-> "ok", coord |-> base_coord]
    ELSE LET failure == TxFailure(transforms[j], naxes)
         IN  IF failure # "ok"
             THEN [status |-> "ValueError", msg |-> failure]
             ELSE cft_transforms(transforms, j + 1,
                                 ApplyTx(transforms[j], base_coord, idx), idx, naxes)

\* the outer loop over the axes, from axis idx on
RECURSIVE cft_axes(_, _, _, _, _)
cft_axes(axes, transforms, shape, idx, result) ==
    IF idx > Len(axes) THEN [status |-> "ok", coords |-> result]
    ELSE LET c == cft_transforms(transforms, 1, arange(shape[idx]), idx, Len(axes))
         IN  IF c.status # "ok" THEN c
             ELSE cft_axes(axes, transforms, shape, idx + 1,
                           Append(result, [dims |-> <<axes[idx].name>>,
                                           data |-> c.coord,
                                           attrs |-> [units |-> axes[idx].unit]]))

coords_from_transforms(axes, transforms, shape) ==
    IF Len(axes) # Len(shape)
    THEN [status |-> "ValueError", msg |-> "axes and shape"]
    ELSE cft_axes(axes, transforms, shape, 1, <<>>)

-----------------------------------------------------------------------------
(* fuse_coordinate_transforms: one [scale, translation] pair out of the     *)
(* chain of a multiscale (base_transforms, possibly None or empty) and the  *)
(* chain of one of its datasets.                                             *)

NoneChain == [isNone |-> TRUE]                       \* base_transforms=None
Chain(txs) == [isNone |-> FALSE, chain |-> txs]      \* a tuple of transforms

Fused(out_scale, out_trans) == [status |-> "ok", transforms |-> <<out_scale, out_trans>>]
Raised(exception) == [status |-> exception]

\* tuple(f(b, d) for b, d in zip(bs, ds))
ZipProduct(bs, ds) == [i \in 1..Min(Len(bs), Len(ds)) |-> bs[i] * ds[i]]
ZipSum(bs, ds) == [i \in 1..Min(Len(bs), Len(ds)) |-> bs[i] + ds[i]]

\* a variant that never takes the dataset's translation
FuseWithoutBase_ZeroTranslation(dset_transforms) ==
    IF Len(dset_transforms) = 0 THEN Raised("IndexError")
    ELSE LET out_scale == dset_transforms[1]
         IN  IF "scale" \notin DOMAIN out_scale THEN Raised("AttributeError")
             ELSE Fused(out_scale, VectorTranslation(Zeros(Len(out_scale.scale))))

\* lines 286-290: no base chain
FuseWithoutBase(dset_transforms) ==
    IF Len(dset_transforms) = 0 THEN Raised("IndexError")
    ELSE LET out_scale == dset_transforms[1]
         IN  IF Len(dset_transforms) = 1
             THEN IF "scale" \notin DOMAIN out_scale THEN Raised("AttributeError")
                  ELSE Fused(out_scale, VectorTranslation(Zeros(Len(out_scale.scale))))
             ELSE Fused(out_scale, dset_transforms[2])

\* lines 302-309: the base chain has a second transform
FuseBothTranslations(out_scale, base_chain, dset_transforms) ==
    IF Len(dset_transforms) < 2 THEN Raised("IndexError")
    ELSE LET base_trans == base_chain[2]
             dset_trans == dset_transforms[2]
         IN  IF "scale" \notin DOMAIN base_trans \/ "scale" \notin DOMAIN dset_trans
             THEN Raised("AttributeError")
             ELSE Fused(out_scale,
                        VectorTranslation(ZipSum(base_trans.scale, dset_trans.scale)))

\* lines 292-309: a base chain
FuseWithBase(base_chain, dset_transforms) ==
    IF Len(dset_transforms) = 0 THEN Raised("IndexError")
    ELSE LET base_scale == base_chain[1]
             dset_scale == dset_transforms[1]
         IN  IF "scale" \notin DOMAIN base_scale \/ "scale" \notin DOMAIN dset_scale
             THEN Raised("AttributeError")
             ELSE LET out_scale == VectorScale(ZipProduct(base_scale.scale, dset_scale.scale))
                  IN  IF Len(base_chain) = 1
                      THEN IF Len(dset_transforms) = 1
                           THEN Fused(out_scale,
                                      VectorTranslation(Zeros(Len(base_scale.scale))))
                           ELSE Fused(out_scale, dset_transforms[2])
                      ELSE FuseBothTranslations(out_scale, base_chain, dset_transforms)

fuse_coordinate_transforms(base_transforms, dset_transforms) ==
    IF base_transforms.isNone THEN FuseWithoutBase(dset_transforms)
    ELSE IF base_transforms.chain = <<>> THEN FuseWithoutBase(dset_transforms)
    ELSE FuseWithBase(base_transforms.chain, dset_transforms)

-----------------------------------------------------------------------------
(* The Zarr hierarchy. A location is the sequence of the names that lead to *)
(* a node; a node is absent ([kind |-> "none"]), a plain directory above a  *)
(* directory store ("dir"), an array with its shape, or a group with its    *)
(* attributes: valid |-> FALSE when they hold no multiscale metadata that   *)
(* Group.from_zarr accepts, else the list of multiscales.                   *)
(* A node handle is [fs, store_path, path]: whether the store has a path    *)
(* attribute (a directory store), that path, and the node's path in it.     *)

Front(q) == SubSeq(q, 1, Len(q) - 1)
Last(q) == q[Len(q)]
Suffix(q, n) == SubSeq(q, n + 1, Len(q))

\* os.path.split: the head and the last name of a path
SplitHead(q) == IF q = <<>> THEN <<>> ELSE Front(q)
SplitTail(q) == IF q = <<>> THEN <<>> ELSE <<Last(q)>>

\* os.path.join(store_path, node.path)
Location(h) == h.store_path \o h.path

NodeAt(st, loc) == IF loc \in DOMAIN st THEN st[loc] ELSE [kind |-> "none"]

EmptyGroup == [kind |-> "group", attrs |-> [valid |-> FALSE]]

\* the store with a new group without attributes at every location of a set
WithGroups(st, locs) ==
    [l \in DOMAIN st \cup locs |-> IF l \in locs THEN EmptyGroup ELSE st[l]]

\* zarr.open / zarr.open_group in the default mode "a": the node that is
\* there; where there is none, a new group without attributes, and before
\* it a new group at every path of the store above it that holds no group,
\* the root of the store first, up to an array in the way
OpenAppend(st, h, group_only) ==
    LET loc == Location(h)
        node == NodeAt(st, loc)
        above == {n \in 0..(Len(h.path) - 1) :
                     NodeAt(st, h.store_path \o SubSeq(h.path, 1, n)).kind # "group"}
        arrays == {n \in above :
                     NodeAt(st, h.store_path \o SubSeq(h.path, 1, n)).kind = "array"}
        made(ns) == {h.store_path \o SubSeq(h.path, 1, n) : n \in ns}
    IN  IF node.kind = "array" /\ group_only
        THEN [status |-> "ContainsArrayError", node |-> h, store |-> st]
        ELSE IF node.kind \in {"array", "group"}
        THEN [status |-> "ok", node |-> h, store |-> st]
        ELSE IF arrays # {}
        THEN [status |-> "ContainsArrayError", node |-> h,
              store |-> WithGroups(st, made({n \in above :
                                              \A m \in arrays : n < m}))]
        ELSE [status |-> "ok", node |-> h,
              store |-> WithGroups(st, made(above) \cup {loc})]

\* the handle get_parent opens (v04 lines 445-454)
ParentHandle(node) ==
    IF node.fs
    THEN LET full_path == IF node.path = <<>>
                          THEN SplitHead(node.store_path)
                          ELSE SplitHead(Location(node))
         IN  [fs |-> TRUE, store_path |-> SplitHead(full_path), path |-> SplitTail(full_path)]
    ELSE [fs |-> FALSE, store_path |-> <<>>, path |-> SplitHead(node.path)]

\* get_parent of v04/multiscale.py: [status, node, store]
get_parent(st, node) == OpenAppend(st, ParentHandle(node), node.fs)

\* zarr.open_group in mode "r": the group that is there, ContainsArrayError
\* for an array, GroupNotFoundError where there is neither
OpenRead(st, h) ==
    LET node == NodeAt(st, Location(h))
    IN  IF node.kind = "group" THEN [status |-> "ok", node |-> h]
        ELSE IF node.kind = "array" THEN [status |-> "ContainsArrayError"]
        ELSE [status |-> "GroupNotFoundError"]

\* a get_parent without the test of line 46: the root of a store without
\* path is opened as its own parent
core_get_parent_NoRootTest(st, node) ==
    IF node.fs
    THEN OpenRead(st, ParentHandle(node))
    ELSE LET opened == OpenRead(st, ParentHandle(node))
         IN  IF opened.status = "ContainsArrayError"
             THEN [status |-> "GroupNotFoundError"]
             ELSE opened

\* get_parent of core.py (lines 30-53): [status, node]
core_get_parent(st, node) ==
    IF node.fs
    THEN OpenRead(st, ParentHandle(node))
    ELSE IF node.path = <<>>
         THEN [status |-> "GroupUnreachableError"]
         ELSE LET opened == OpenRead(st, ParentHandle(node))
              IN  IF opened.status = "ContainsArrayError"
                  THEN [status |-> "GroupNotFoundError"]
                  ELSE opened

\* Group.from_zarr(node): the multiscales of a group that holds valid
\* multiscale metadata, a ValueError for anything else
GroupFromZarr(st, h) ==
    LET node == NodeAt(st, Location(h))
    IN  IF node.kind = "group" /\ node.attrs.valid
        THEN [status |-> "ok", multiscales |-> node.attrs.multiscales]
        ELSE [status |-> "ValueError"]

\* DataArray(wrapper.wrap(array), coords=coords), with how it came about
Labeled(location, coords, from) ==
    [status |-> "ok", data |-> location, coords |-> coords, from |-> from]

\* the coordinates of an array of a shape under one dataset of a multiscale
\* (lines 431-434 and 511-516)
DatasetCoords(multi, dset, shape) ==
    LET tx_fused == fuse_coordinate_transforms(multi.coordinateTransformations,
                                               dset.coordinateTransformations)
    IN  IF tx_fused.status # "ok" THEN tx_fused
        ELSE coords_from_transforms(multi.axes, tx_fused.transforms, shape)

-----------------------------------------------------------------------------
(* read_group: the arrays of one multiscale of a group.                     *)

\* the loop over the datasets, from dataset d on; result maps paths to arrays
RECURSIVE rg_datasets(_, _, _, _, _)
rg_datasets(st, group, multi_meta, d, result) ==
    IF d > Len(multi_meta.datasets) THEN [status |-> "ok", arrays |-> result]
    ELSE LET dset == multi_meta.datasets[d]
             tx_fused == fuse_coordinate_transforms(multi_meta.coordinateTransformations,
                                                    dset.coordinateTransformations)
             loc == Location(group) \o dset.path
             arr_z == NodeAt(st, loc)
         IN  IF tx_fused.status # "ok" THEN tx_fused
             ELSE IF arr_z.kind \notin {"array", "group"} THEN Raised("KeyError")
             ELSE IF arr_z.kind = "group" THEN Raised("AttributeError")
             ELSE LET coords == coords_from_transforms(multi_meta.axes,
                                                       tx_fused.transforms, arr_z.shape)
                  IN  IF coords.status # "ok" THEN coords
                      ELSE rg_datasets(st, group, multi_meta, d + 1,
                               [q \in DOMAIN result \cup {dset.path} |->
                                   IF q = dset.path
                                   THEN [data |-> loc, coords |-> coords.coords]
                                   ELSE result[q]])

read_group(st, group, multiscales_index) ==
    LET parsed == GroupFromZarr(st, group)
    IN  IF parsed.status # "ok" THEN parsed
        ELSE IF multiscales_index + 1 > Len(parsed.multiscales) THEN Raised("IndexError")
        ELSE rg_datasets(st, group, parsed.multiscales[multiscales_index + 1], 1, <<>>)

-----------------------------------------------------------------------------
(* read_array: the walk up the hierarchy, one iteration of its loop a step. *)

\* the names of the model that end with ":"; with the "/" after it such a
\* name is the protocol_delimiter of read_array
ProtocolNames == {"a:", "b:"}

\* whether the store's path attribute is a relative path (a handle says so
\* with a field 'relative'; the stores of the hierarchies are absolute)
IsRelative(h) == "relative" \in DOMAIN h /\ h.relative

\* full_path.split("/") of full_path = os.path.join(store_path, array.path)
\* (lines 484-488, 494): "" for the "/" an absolute path begins with, the
\* names, and "" when array.path is empty: after the "/" that os.path.join
\* puts behind the store path, or for the empty full path itself
FullPathParts(array) ==
    (IF array.fs /\ ~IsRelative(array) THEN <<"">> ELSE <<>>)
    \o Location(array)
    \o (IF array.path = <<>> THEN <<"">> ELSE <<>>)

\* path_idx_start (lines 486-492) as a number of parts: those up to and
\* with the first name that ends with ":" and has a "/" after it
PartsBeforeStart(parts) ==
    LET delimiters == {i \in 1..(Len(parts) - 1) : parts[i] \in ProtocolNames}
    IN  IF delimiters = {} THEN 0
        ELSE CHOOSE i \in delimiters : \A j \in delimiters : i <= j

\* num_parents (line 494): the number of iterations of the loop
NumParents(array) ==
    Len(FullPathParts(array)) - PartsBeforeStart(FullPathParts(array))

\* the datasets of a group that match the path, in the order of the two
\* loops of lines 506-510: <<multiscale, dataset>> index pairs
RECURSIVE Matches(_, _, _, _)
Matches(multiscales, array_path_rel, mi, di) ==
    IF mi > Len(multiscales) THEN <<>>
    ELSE IF di > Len(multiscales[mi].datasets)
         THEN Matches(multiscales, array_path_rel, mi + 1, 1)
    ELSE IF multiscales[mi].datasets[di].path = array_path_rel THEN <<mi, di>>
    ELSE Matches(multiscales, array_path_rel, mi, di + 1)

\* one iteration of the loop of lines 498-520 on parent p: what it does is
\* "return", "raise", "ascend" (the except clause) or "stay"
LoopBody(st, array, p) ==
    LET full_path == Location(array)
        array_path_rel == Suffix(full_path, Len(Location(p)))
        model == GroupFromZarr(st, p)
    IN  IF ~array.fs /\ full_path = <<>>
        THEN \* os.path.relpath("", parent_path), line 503: no path specified
             [does |-> "raise", value |-> [status |-> "ValueError", from |-> Location(p)]]
        ELSE IF model.status # "ok" THEN [does |-> "ascend"]
        ELSE LET hit == Matches(model.multiscales, array_path_rel, 1, 1)
             IN  IF hit = <<>> THEN [does |-> "stay"]
                 ELSE LET multi == model.multiscales[hit[1]]
                          dset == multi.datasets[hit[2]]
                          coords == DatasetCoords(multi, dset, NodeAt(st, full_path).shape)
                      IN  IF coords.status = "ok"
                          THEN [does |-> "return",
                                value |-> Labeled(full_path, coords.coords, Location(p))]
                          ELSE IF coords.status = "ValueError"
                          THEN [does |-> "ascend"]
                          ELSE [does |-> "raise",
                                value |-> [status |-> coords.status, from |-> Location(p)]]

-----------------------------------------------------------------------------
(* Assembly of the metadata of a pyramid. arrays is the ordered dict of the *)
(* levels, a sequence of [path, array]; an array is [shape, coords, values] *)
(* with coords as the encoder takes them. The constructors of               *)
(* pydantic_ome_ngff validate what they are given: whether they reject      *)
(* transforms and arrays whose rank is not the number of axes depends on    *)
(* the installed version, which the parameter strict stands for.            *)

\* numpy.prod(shape)
RECURSIVE Prod(_)
Prod(shape) == IF shape = <<>> THEN 1 ELSE shape[1] * Prod(Tail(shape))

\* sorted(items, key=size, reverse=True): decreasing, equal sizes keep
\* their order
InsertDecreasing(rest, it) ==
    LET n == Cardinality({k \in 1..Len(rest) :
                             Prod(rest[k].array.shape) >= Prod(it.array.shape)})
    IN  SubSeq(rest, 1, n) \o <<it>> \o SubSeq(rest, n + 1, Len(rest))

RECURSIVE SortedDecreasing(_)
SortedDecreasing(items) ==
    IF items = <<>> THEN <<>>
    ELSE InsertDecreasing(SortedDecreasing(Front(items)), Last(items))

\* what the generator over the levels gives: the first exception wins
LevelsOrFailure(encoded) ==
    LET failed == {i \in 1..Len(encoded) : encoded[i].status # "ok"}
    IN  IF failed = {} THEN [status |-> "ok", levels |-> encoded]
        ELSE [status |-> encoded[CHOOSE i \in failed : \A j \in failed : i <= j].status]

\* the encoder applied to every level
EncodeLevels(items, normalize_units, infer_axis_type, transform_precision) ==
    LevelsOrFailure([i \in 1..Len(items) |->
                        transforms_from_coords(items[i].array.coords, normalize_units,
                                               infer_axis_type, transform_precision)])

Dataset(path, coordinateTransformations) ==
    [path |-> path, coordinateTransformations |-> coordinateTransformations]

\* MultiscaleMetadata(axes=..., datasets=..., coordinateTransformations=...)
MultiscaleMetadata(axes, datasets, coordinateTransformations, strict) ==
    IF strict /\ \E d \in 1..Len(datasets) :
                    Len(datasets[d].coordinateTransformations[1].scale) # Len(axes)
    THEN Raised("ValidationError")
    ELSE [status |-> "ok",
          multiscale |-> [axes |-> axes, datasets |-> datasets,
                          coordinateTransformations |-> coordinateTransformations]]

\* the metadata of levels that were encoded: the axes of the first level, a
\* dataset for the i-th path with the i-th transforms
Assemble(paths, encoded, coordinateTransformations, strict) ==
    IF encoded.status # "ok" THEN encoded
    ELSE MultiscaleMetadata(encoded.levels[1].axes,
                            [i \in 1..Len(paths) |->
                                Dataset(paths[i], encoded.levels[i].transforms)],
                            coordinateTransformations, strict)

PathsOf(items) == [i \in 1..Len(items) |-> items[i].path]

\* lines 78-103 on the sorted levels
MetadataOfSorted(sorted, normalize_units, infer_axis_type, transform_precision, strict) ==
    Assemble(PathsOf(sorted),
             EncodeLevels(sorted, normalize_units, infer_axis_type, transform_precision),
             NoneChain, strict)

\* multiscale_metadata of v04/multiscale.py
multiscale_metadata(arrays, normalize_units, infer_axis_type, transform_precision, strict) ==
    IF arrays = <<>> THEN Raised("ValueError")
    ELSE MetadataOfSorted(SortedDecreasing(arrays), normalize_units, infer_axis_type,
                          transform_precision, strict)

\* Group.from_arrays(...): the group of the metadata and the arrays
GroupFromArrays(arrays, meta, strict) ==
    IF meta.status # "ok" THEN meta
    ELSE IF strict /\ \E i \in 1..Len(arrays) :
                         Len(arrays[i].array.shape) # Len(meta.multiscale.axes)
    THEN Raised("ValidationError")
    ELSE [status |-> "ok",
          attrs |-> [valid |-> TRUE, multiscales |-> <<meta.multiscale>>],
          members |-> arrays]

\* a variant that pairs the paths as they came with the transforms of the
\* levels by decreasing size
model_group_SortedTransforms(arrays, transform_precision, strict) ==
    IF arrays = <<>> THEN Raised("ValueError")
    ELSE GroupFromArrays(arrays,
                         Assemble(PathsOf(arrays),
                                  EncodeLevels(SortedDecreasing(arrays), TRUE, TRUE,
                                               transform_precision),
                                  NoneChain, strict),
                         strict)

\* model_group: Group.from_arrays on the levels as they came
model_group(arrays, transform_precision, strict) ==
    IF arrays = <<>> THEN Raised("ValueError")
    ELSE GroupFromArrays(arrays,
                         Assemble(PathsOf(arrays),
                                  EncodeLevels(arrays, TRUE, TRUE, transform_precision),
                                  NoneChain, strict),
                         strict)

-----------------------------------------------------------------------------
(* The encoder and the assembly of latest/multiscales.py and of             *)
(* v05/multiscales.py. A result carries the warnings that were emitted.     *)

\* the unit before normalization and the warnings about its key
\* (latest lines 175-192, v05 lines 182-200)
UnitOfAttrs(attrs) ==
    IF AttrGet(attrs, "unit") = None /\ AttrGet(attrs, "units") # None
    THEN [unit |-> AttrGet(attrs, "units"), warnings |-> <<"units for unit">>]
    ELSE IF AttrGet(attrs, "units") # None
    THEN [unit |-> AttrGet(attrs, "unit"), warnings |-> <<"unit and units">>]
    ELSE [unit |-> AttrGet(attrs, "unit"), warnings |-> <<>>]

\* the exception the unit registry raises, "ok" if none; guarded is whether
\* a missing unit is kept from ureg.get_name (latest line 193 tests
\* 'unit is not None', v05 lines 201-202 do not). ureg.get_name(None) finds
\* no unit under the key None and goes on to parse the name, which calls
\* None.startswith: AttributeError
UnitFailure(unit, type, normalize_units, infer_axis_type, guarded) ==
    IF unit = None
    THEN IF normalize_units /\ ~guarded THEN "AttributeError" ELSE "ok"
    ELSE IF normalize_units /\ unit \notin KnownUnits THEN "UndefinedUnitError"
    ELSE IF type = None /\ infer_axis_type /\ unit \notin KnownUnits \cup CompoundUnits
    THEN "UndefinedUnitError"
    ELSE "ok"

\* the type of the axis and the warnings of the inference
\* (latest lines 195-218, v05 lines 203-227)
InferredType(type, unit, infer_axis_type) ==
    IF type = None /\ infer_axis_type
    THEN LET unit_dimensionality == ureg_get_dimensionality(unit)
             compound == IF Cardinality(unit_dimensionality) > 1
                         THEN <<"compound unit">> ELSE <<>>
         IN  IF "[length]" \in unit_dimensionality
             THEN [type |-> "space", warnings |-> compound]
             ELSE IF "[time]" \in unit_dimensionality
             THEN [type |-> "time", warnings |-> compound]
             ELSE [type |-> None, warnings |-> compound \o <<"no type for unit">>]
    ELSE [type |-> type, warnings |-> <<>>]

\* the Axis of a coordinate once its unit is read
AxisOfUnit(dim, read, type, normalize_units, infer_axis_type) ==
    LET unit == IF normalize_units /\ read.unit # None
                THEN ureg_get_name(read.unit) ELSE read.unit
        inferred == InferredType(type, unit, infer_axis_type)
    IN  [axis |-> Axis(dim, unit, inferred.type),
         warnings |-> read.warnings \o inferred.warnings]

\* the exception the loop body raises on one coordinate, "ok" if none
CoordFailureLatest(c, read, normalize_units, infer_axis_type, guarded) ==
    IF guarded /\ Len(c.dims) # 1 THEN "ValueError"
    ELSE IF Len(c.data) = 0 THEN "IndexError"
    ELSE UnitFailure(read.unit, AttrGet(c.attrs, "type"), normalize_units,
                     infer_axis_type, guarded)

RECURSIVE ctt_loop(_, _, _, _)
ctt_loop(coords, i, flags, acc) ==
    IF i > Len(coords) THEN acc
    ELSE LET c == coords[i]
             read == UnitOfAttrs(c.attrs)
             failure == CoordFailureLatest(c, read, flags.normalize_units,
                                           flags.infer_axis_type, flags.guarded)
             made == AxisOfUnit(c.dims[1], read, AttrGet(c.attrs, "type"),
                                flags.normalize_units, flags.infer_axis_type)
         IN  IF failure # "ok" THEN [status |-> failure]
             ELSE ctt_loop(coords, i + 1, flags,
                           [status |-> "ok",
                            axes |-> Append(acc.axes, made.axis),
                            scale |-> Append(acc.scale, CoordScale(c.data)),
                            translate |-> Append(acc.translate, CoordTranslate(c.data)),
                            warnings |-> acc.warnings \o made.warnings])

\* the result of the loop as the two functions return it
AxesAndTransforms(r) ==
    IF r.status # "ok" THEN r
    ELSE [status |-> "ok", axes |-> r.axes, warnings |-> r.warnings,
          transforms |-> <<VectorScale(r.scale), VectorTranslation(r.translate)>>]

NoneYet == [status |-> "ok", axes |-> <<>>, scale |-> <<>>, translate |-> <<>>,
            warnings |-> <<>>]

\* coords_to_transforms of latest/multiscales.py
coords_to_transforms(coords, normalize_units, infer_axis_type) ==
    AxesAndTransforms(ctt_loop(coords, 1,
        [normalize_units |-> normalize_units, infer_axis_type |-> infer_axis_type,
         guarded |-> TRUE], NoneYet))

\* create_transforms of v05/multiscales.py, on the coordinates of the
\* dimensions of the array
create_transforms(coords, normalize_units, infer_axis_type) ==
    AxesAndTransforms(ctt_loop(coords, 1,
        [normalize_units |-> normalize_units, infer_axis_type |-> infer_axis_type,
         guarded |-> FALSE], NoneYet))

\* reversed(sorted(arrays, key=size)): decreasing, equal sizes in the
\* reverse of their order
InsertIncreasing(rest, a) ==
    LET n == Cardinality({k \in 1..Len(rest) : Prod(rest[k].shape) <= Prod(a.shape)})
    IN  SubSeq(rest, 1, n) \o <<a>> \o SubSeq(rest, n + 1, Len(rest))

RECURSIVE SortedIncreasing(_)
SortedIncreasing(arrays) ==
    IF arrays = <<>> THEN <<>>
    ELSE InsertIncreasing(SortedIncreasing(Front(arrays)), Last(arrays))

Reversed(q) == [i \in 1..Len(q) |-> q[Len(q) + 1 - i]]

\* the levels encoded by the encoder of the variant
EncodeSorted(arrays_sorted, normalize_units, infer_axis_type, version) ==
    LevelsOrFailure([i \in 1..Len(arrays_sorted) |->
        IF version = "v05"
        THEN create_transforms(arrays_sorted[i].coords, normalize_units, TRUE)
        ELSE coords_to_transforms(arrays_sorted[i].coords, normalize_units,
                                  infer_axis_type)])

NoPaths == [isNone |-> TRUE]                         \* array_paths=None
Paths(paths) == [isNone |-> FALSE, paths |-> paths]  \* a sequence of paths

\* the paths of the datasets (latest lines 100-106, v05 lines 102-110)
PathsFor(arrays_sorted, array_paths) ==
    IF array_paths.isNone THEN [i \in 1..Len(arrays_sorted) |-> arrays_sorted[i].name]
    ELSE array_paths.paths

\* a variant whose base scale has one factor per level
AssembleSorted_FactorPerLevel(arrays_sorted, array_paths, encoded, strict) ==
    IF arrays_sorted = <<>> THEN Raised("IndexError")
    ELSE IF encoded.status # "ok" THEN encoded
    ELSE IF ~array_paths.isNone /\ Len(array_paths.paths) # Len(arrays_sorted)
    THEN Raised("AssertionError")
    ELSE Assemble(PathsFor(arrays_sorted, array_paths), encoded,
                  Chain(<<VectorScale([i \in 1..Len(arrays_sorted) |-> 1])>>),
                  strict)

\* the part after the rank check (latest lines 79-119, v05 lines 85-124)
AssembleSorted(arrays_sorted, array_paths, encoded, strict) ==
    IF arrays_sorted = <<>> THEN Raised("IndexError")
    ELSE IF encoded.status # "ok" THEN encoded
    ELSE IF ~array_paths.isNone /\ Len(array_paths.paths) # Len(arrays_sorted)
    THEN Raised("AssertionError")
    ELSE Assemble(PathsFor(arrays_sorted, array_paths), encoded,
                  Chain(<<VectorScale([i \in 1..Len(arrays_sorted[1].shape) |-> 1])>>),
                  strict)

\* multiscale_metadata of latest/multiscales.py (version "latest") and
\* create_multiscale of v05/multiscales.py (version "v05")
create_multiscale(arrays, array_paths, normalize_units, infer_axis_type, strict, version) ==
    IF Cardinality({Len(arrays[i].shape) : i \in 1..Len(arrays)}) > 1
    THEN [status |-> "ValueError",
          ndims |-> {Len(arrays[i].shape) : i \in 1..Len(arrays)}]
    ELSE AssembleSorted(Reversed(SortedIncreasing(arrays)), array_paths,
                        EncodeSorted(Reversed(SortedIncreasing(arrays)), normalize_units,
                                     infer_axis_type, version),
                        strict)

\* the values of an array that was created and not written
FillValue == "fill_value"

\* Group.to_zarr(store, path): the group with its attributes, an array of
\* the shape of every member, plain groups on the way to them
ToZarr(st, dir, path, model) ==
    LET here == dir \o path
        arrays == {here \o model.members[i].path : i \in 1..Len(model.members)}
        shapeAt(loc) == LET i == CHOOSE i \in 1..Len(model.members) :
                                     here \o model.members[i].path = loc
                        IN  model.members[i].array.shape
        between == UNION { {SubSeq(a, 1, n) : n \in Len(dir)..(Len(a) - 1)} : a \in arrays }
                       \ {here}
    IN  [l \in DOMAIN st \cup arrays \cup between \cup {here} |->
            IF l \in arrays
            THEN [kind |-> "array", shape |-> shapeAt(l), values |-> FillValue]
            ELSE IF l = here THEN [kind |-> "group", attrs |-> model.attrs]
            ELSE IF l \in between /\ NodeAt(st, l).kind # "group" THEN EmptyGroup
            ELSE st[l]]

\* model.to_zarr(store, path) of a model that was built
Materialize(st, fs, dir, path, model) ==
    IF model.status # "ok" THEN [status |-> model.status, store |-> st]
    ELSE [status |-> "ok",
          group |-> [fs |-> fs, store_path |-> dir, path |-> path],
          store |-> ToZarr(st, dir, path, model)]

\* a variant that makes the group before its metadata is inferred
create_group_GroupFirst(st, fs, dir, path, arrays, transform_precision, strict) ==
    Materialize([l \in DOMAIN st \cup {dir \o path} |->
                    IF l = dir \o path THEN EmptyGroup ELSE st[l]],
                fs, dir, path, model_group(arrays, transform_precision, strict))

\* create_group of v04/multiscale.py: [status, group, store]
create_group(st, fs, dir, path, arrays, transform_precision, strict) ==
    Materialize(st, fs, dir, path, model_group(arrays, transform_precision, strict))

-----------------------------------------------------------------------------
(* registry.py: the functions of a version of the metadata. A function is   *)
(* [module, name]; a module is named by the components of its dotted name  *)
(* and known by the names it holds.                                         *)

Modules ==
    {<<"xarray_ome_ngff">>, <<"xarray_ome_ngff", "array_wrap">>, <<"xarray_ome_ngff", "base">>,
    <<"xarray_ome_ngff", "core">>, <<"xarray_ome_ngff", "latest">>,
    <<"xarray_ome_ngff", "latest", "multiscales">>, <<"xarray_ome_ngff", "registry">>,
    <<"xarray_ome_ngff", "v04">>, <<"xarray_ome_ngff", "v04", "multiscale">>,
    <<"xarray_ome_ngff", "v05">>, <<"xarray_ome_ngff", "v05", "multiscales">>}

\* the names a module holds once it has run: those the import system sets,
\* those it defines and those it imports; for a package, also its submodules
\* that import (v04, latest and v05 are packages without an __init__.py)
NamesOf(module) ==
    CASE module = <<"xarray_ome_ngff">> ->
            {"ArrayWrapperSpec", "BaseArrayWrapper", "BaseStore",
            "DaskArrayWrapper", "DataArray", "NGFF_VERSIONS", "TYPE_CHECKING",
            "ZarrArrayWrapper", "__all__", "__builtins__", "__cached__",
            "__doc__", "__file__", "__loader__", "__name__", "__package__",
            "__path__", "__spec__", "__version__", "_version", "annotations",
            "array_wrap", "base", "core", "create_multiscale_group", "latest",
            "model_multiscale_group", "multiscale_v04",
            "read_multiscale_array", "read_multiscale_group", "v04", "v05",
            "zarr"}
      [] module = <<"xarray_ome_ngff", "array_wrap">> ->
            {"ABC", "ArrayWrapperSpec", "Arrayish", "BaseArrayWrapper",
            "DaskArrayWrapper", "DaskArrayWrapperConfig",
            "DaskArrayWrapperSpec", "Protocol", "TYPE_CHECKING", "TypedDict",
            "ZarrArrayWrapper", "ZarrArrayWrapperSpec", "__builtins__",
            "__cached__", "__doc__", "__file__", "__loader__", "__name__",
            "__package__", "__spec__", "abstractmethod", "annotations",
            "cast", "dataclass", "find_spec", "np", "parse_wrapper",
            "resolve_wrapper", "runtime_checkable", "zarr"}
      [] module = <<"xarray_ome_ngff", "base">> ->
            {"BaseModel", "StrictBaseModel", "__builtins__", "__cached__",
            "__doc__", "__file__", "__loader__", "__name__", "__package__",
            "__spec__"}
      [] module = <<"xarray_ome_ngff", "core">> ->
            {"BaseModel", "ContainsArrayError", "CoordinateAttrs",
            "Generator", "GroupNotFoundError", "GroupUnreachableError",
            "JSON", "NGFF_VERSIONS", "Union", "_BaseZarrError",
            "__builtins__", "__cached__", "__doc__", "__file__", "__loader__",
            "__name__", "__package__", "__spec__", "annotations",
            "get_parent", "iter_parents", "os", "pint", "ureg", "zarr"}
      [] module = <<"xarray_ome_ngff", "registry">> ->
            {"Any", "Callable", "MetadataAdapters", "NamedTuple",
            "__builtins__", "__cached__", "__doc__", "__file__", "__loader__",
            "__name__", "__package__", "__spec__", "get_adapters",
            "ngff_versions"}
      [] module = <<"xarray_ome_ngff", "v04">> ->
            {"__doc__", "__file__", "__loader__", "__name__", "__package__",
            "__path__", "__spec__", "multiscale"}
      [] module = <<"xarray_ome_ngff", "v04", "multiscale">> ->
            {"ArrayWrapperSpec", "Axis", "BaseArrayWrapper", "BaseStore",
            "CoordinateAttrs", "DataArray", "Dataset", "Group",
            "MultiscaleMetadata", "TYPE_CHECKING", "VectorScale",
            "VectorTranslation", "ZarrArrayWrapper", "__builtins__",
            "__cached__", "__doc__", "__file__", "__loader__", "__name__",
            "__package__", "__spec__", "annotations",
            "coords_from_transforms", "create_group",
            "fuse_coordinate_transforms", "get_parent", "model_group",
            "multiscale_metadata", "np", "os", "parse_wrapper", "read_array",
            "read_group", "transforms_from_coords", "ureg", "warnings",
            "zarr"}
      [] module = <<"xarray_ome_ngff", "latest">> ->
            {"__doc__", "__file__", "__loader__", "__name__", "__package__",
            "__path__", "__spec__", "multiscales"}
      [] module = <<"xarray_ome_ngff", "latest", "multiscales">> ->
            {"Any", "Axis", "CoordinateTransform", "DataArray", "Dict",
            "List", "Multiscale", "MultiscaleDataset", "Optional", "Sequence",
            "Tuple", "VectorScaleTransform", "VectorTranslationTransform",
            "__builtins__", "__cached__", "__doc__", "__file__", "__loader__",
            "__name__", "__package__", "__spec__", "builtins",
            "coords_to_transforms", "multiscale_metadata", "np",
            "transforms_to_coords", "ureg", "warnings"}
      [] module = <<"xarray_ome_ngff", "v05">> ->
            {"__doc__", "__file__", "__loader__", "__name__", "__package__",
            "__path__", "__spec__", "multiscales"}
      [] module = <<"xarray_ome_ngff", "v05", "multiscales">> ->
            {"Any", "Axis", "CoordinateTransform", "DataArray", "Dict",
            "JSON", "List", "Multiscale", "MultiscaleDataset", "Optional",
            "Sequence", "Tuple", "Union", "VectorScaleTransform",
            "VectorTranslationTransform", "__builtins__", "__cached__",
            "__doc__", "__file__", "__loader__", "__name__", "__package__",
            "__spec__", "builtins", "create_coords", "create_multiscale",
            "create_transforms", "np", "pint", "ureg", "warnings"}
      [] OTHER -> {}

\* the names every module object has from its type: a from-import finds them
\* as attributes of the module
ModuleTypeNames ==
    {"__annotations__", "__class__", "__delattr__", "__dict__", "__dir__",
    "__doc__", "__eq__", "__format__", "__ge__", "__getattribute__",
    "__getstate__", "__gt__", "__hash__", "__init__", "__init_subclass__",
    "__le__", "__lt__", "__ne__", "__new__", "__reduce__", "__reduce_ex__",
    "__repr__", "__setattr__", "__sizeof__", "__str__", "__subclasshook__"}

\* what running the module raises, "ok" if nothing: line 2 of registry.py
\* imports ngff_versions from core
Executes(module) ==
    IF module = <<"xarray_ome_ngff", "registry">>
          /\ "ngff_versions" \notin NamesOf(<<"xarray_ome_ngff", "core">>)
    THEN "ImportError"
    ELSE "ok"

\* the packages and the module that `from module import ...` runs, outermost
\* first: a dotted name is imported one component at a time
ImportChain(module) == [i \in 1..Len(module) |-> SubSeq(module, 1, i)]

\* from module import names: the exception raised, "ok" if none. The first
\* link of the chain that is missing, or that raises when it runs, stops the
\* import; then the names are looked up in the module
Import(module, names) ==
    LET chain == ImportChain(module)
        failing == {i \in 1..Len(chain) :
                        chain[i] \notin Modules \/ Executes(chain[i]) # "ok"}
        first == CHOOSE i \in failing : \A j \in failing : i <= j
    IN  IF module = <<>> THEN "ModuleNotFoundError"
        ELSE IF failing # {}
        THEN IF chain[first] \notin Modules THEN "ModuleNotFoundError"
             ELSE Executes(chain[first])
        ELSE IF ~(names \subseteq NamesOf(module) \cup ModuleTypeNames) THEN "ImportError"
        ELSE "ok"

Function(module, name) == [module |-> module, name |-> name]

\* MetadataAdapters of the three functions of a module, if they import
MetadataAdapters(ngff_version, module) ==
    LET imported == Import(module, {"multiscale_metadata", "transforms_to_coords",
                                    "coords_to_transforms"})
    IN  IF imported # "ok" THEN [status |-> imported]
        ELSE [status |-> "ok",
              ngff_version |-> ngff_version,
              multiscale_metadata |-> Function(module, "multiscale_metadata"),
              transforms_to_coords |-> Function(module, "transforms_to_coords"),
              coords_to_transforms |-> Function(module, "coords_to_transforms")]

\* get_adapters(version)
get_adapters(version) ==
    IF version = "0.4"
    THEN MetadataAdapters("0.4", <<"xarray_ome_ngff", "v04", "multiscales">>)
    ELSE IF version = "0.5-dev" \/ version = "latest"
    THEN MetadataAdapters("0.5-dev", <<"xarray_ome_ngff", "latest", "multiscales">>)
    ELSE [status |-> "ValueError"]

\* from xarray_ome_ngff.registry import get_adapters; get_adapters(version):
\* the module is executed first, and its line 2 imports from core
registry_get_adapters(version) ==
    LET imported == Import(<<"xarray_ome_ngff", "registry">>, {"get_adapters"})
    IN  IF imported # "ok" THEN [status |-> imported]
        ELSE get_adapters(version)

-----------------------------------------------------------------------------
(* The inputs the functions are called on.                                  *)

DimNames == <<"z", "y", "x", "c">>

Samples == {-5, 15}                \* coordinate samples
Factors == {-1, 2}                   \* scale factors and offsets of a chain
Decimals == {-1}                     \* values of transform_precision

Vectors(S, n) == [1..n -> S]

\* coordinates with 1..MaxLen samples
CoordData == UNION {Vectors(Samples, n) : n \in 1..MaxLen}

NoAttrs == [units |-> None, type |-> None]
AttrChoices ==
    { NoAttrs,
      [units |-> "nm", type |-> None],
      [units |-> "second", type |-> None],
      [units |-> "kelvin", type |-> None],
      [units |-> "nm", type |-> "channel"],
      [unit |-> "nm"],
      [unit |-> "nm", units |-> "second"],
      [units |-> "nm/s"],
      [unit |-> "nm/s", type |-> "channel"] }

Coord(i, data, attrs) ==
    [dim |-> DimNames[i], dims |-> <<DimNames[i]>>, data |-> data, attrs |-> attrs]

\* the coordinates of arrays of every rank, every sample varied, no attributes
NumericCoords ==
    UNION { { [i \in 1..r |-> Coord(i, d[i], NoAttrs)] : d \in [1..r -> CoordData] }
            : r \in 0..MaxRank }

\* the coordinates of arrays of every rank, every attribute varied
AttrCoords ==
    UNION { { [i \in 1..r |-> Coord(i, <<-5, 15>>, a[i])] : a \in [1..r -> AttrChoices] }
            : r \in 1..MaxRank }

\* coordinates the encoder rejects: no dimension, two dimensions, a foreign
\* dimension, no sample
BadCoord ==
    { [dim |-> "y", dims |-> <<>>, data |-> <<0>>, attrs |-> NoAttrs],
      [dim |-> "y", dims |-> <<"y", "x">>, data |-> <<0, 15>>, attrs |-> NoAttrs],
      [dim |-> "y", dims |-> <<"x">>, data |-> <<0, 15>>, attrs |-> NoAttrs],
      [dim |-> "y", dims |-> <<"y">>, data |-> <<>>, attrs |-> NoAttrs] }
BadCoords ==
    { <<b>> : b \in BadCoord } \cup { <<Coord(1, <<-5, 15>>, NoAttrs), b>> : b \in BadCoord }

EncodeArgs ==
    { [coords |-> c, normalize_units |-> TRUE, infer_axis_type |-> TRUE,
       transform_precision |-> p]
        : c \in NumericCoords \cup BadCoords,
          p \in {NoPrecision} \cup {Precision(d) : d \in Decimals} }
    \cup
    { [coords |-> c, normalize_units |-> n, infer_axis_type |-> t,
       transform_precision |-> NoPrecision]
        : c \in AttrCoords, n \in BOOLEAN, t \in BOOLEAN }

\* the calls of the encoders of latest and v05
EncodeLatestArgs ==
    { [coords |-> c, normalize_units |-> n, infer_axis_type |-> t]
        : c \in AttrCoords, n \in BOOLEAN, t \in BOOLEAN }

AxisChoices == << Axis("z", "nanometer", "space"), Axis("y", None, None),
                  Axis("x", "second", "time"), Axis("c", None, "channel") >>
AxesOfRank(r) == [i \in 1..r |-> AxisChoices[i]]

\* the literal transforms of r parameters
LiteralTx(r) ==
    {VectorScale(v) : v \in Vectors(Factors, r)}
    \cup {VectorTranslation(v) : v \in Vectors(Factors, r)}
    \cup {Identity}

\* transforms the decoder rejects on r axes
BadTx(r) ==
    { PathScale("s"), PathTranslation("t"), [type |-> "affine"],
      VectorScale(Zeros(r + 1)), VectorTranslation(Zeros(r + 1)) }

SeqsUpTo(S, n) == UNION {Vectors(S, k) : k \in 0..n}

\* the shapes of rank r: every axis of n entries, and axis i of i - 1 + n
\* entries (modulo MaxLen + 1), so that the axes differ
Shapes(r) ==
    { [i \in 1..r |-> n] : n \in 0..MaxLen }
    \cup { [i \in 1..r |-> (i - 1 + n) % (MaxLen + 1)] : n \in 0..MaxLen }

DecodeArgs ==
    UNION { { [axes |-> AxesOfRank(r), transforms |-> c, shape |-> s]
                : c \in SeqsUpTo(LiteralTx(r), MaxChain),
                  s \in { [i \in 1..r |-> MaxLen], [i \in 1..r |-> i % (MaxLen + 1)] } }
            : r \in 0..MaxRank }
    \cup
    UNION { { [axes |-> AxesOfRank(r),
               transforms |-> <<VectorScale(a), VectorTranslation(t)>>,
               shape |-> s]
                : a \in Vectors(Factors, r), t \in Vectors(Factors, r), s \in Shapes(r) }
            : r \in 0..MaxRank }
    \cup
    UNION { { [axes |-> AxesOfRank(r), transforms |-> c, shape |-> [i \in 1..r |-> 2]]
                : c \in { <<b>> : b \in BadTx(r) }
                        \cup { <<VectorScale(Zeros(r)), b>> : b \in BadTx(r) } }
            : r \in 0..MaxRank }
    \cup
    UNION { { [axes |-> AxesOfRank(r), transforms |-> c, shape |-> s]
                : c \in { <<a, b>> : a \in BadTx(r), b \in BadTx(r) }
                        \cup { <<b, VectorScale(Zeros(r))>> : b \in BadTx(r) },
                  s \in { [i \in 1..r |-> 2], Zeros(r + 1) } }
            : r \in 0..MaxRank }
    \cup
    { [axes |-> AxesOfRank(r), transforms |-> <<>>, shape |-> Zeros(r + 1)]
        : r \in 0..MaxRank }

\* the array of given coordinates
ArrayOfCoords(coords) ==
    [shape |-> [i \in 1..Len(coords) |-> Len(coords[i].data)],
     coords |-> coords,
     name |-> <<"array">>,
     values |-> <<"values">>]

\* a dict of two levels, the one at position being the array of coords
PyramidOfCoords(coords, position) ==
    LET regular == ArrayOfCoords(<<Coord(2, <<-5, 15>>, [units |-> "nm", type |-> None])>>)
        it == ArrayOfCoords(coords)
    IN  IF position = 1
        THEN << [path |-> <<"s0">>, array |-> it], [path |-> <<"s1">>, array |-> regular] >>
        ELSE << [path |-> <<"s0">>, array |-> regular], [path |-> <<"s1">>, array |-> it] >>

PyramidArgs ==
    { [arrays |-> PyramidOfCoords(c, position)]
        : c \in BadCoords \cup AttrCoords, position \in {1, 2} }

StoreDir == <<"tmp">>                \* the directory of a directory store

\* create_group(store=store, path="test", ...)
CreatedPath == <<"test">>
EmptyStore(fs) == IF fs THEN [l \in {<<>>} |-> [kind |-> "dir"]] ELSE <<>>

\* version tags: the supported one, those of the draft, and others
VersionTags == {"0.4", "0.5-dev", "latest", "0.3", "v04"}

FuseChains(r) ==
    {Chain(<<>>)}
    \cup {Chain(<<VectorScale(a)>>) : a \in Vectors(Factors, r)}
    \cup {Chain(<<VectorScale(a), VectorTranslation(t)>>)
            : a \in Vectors(Factors, r), t \in Vectors(Factors, r)}

FuseArgs ==
    UNION { { [base_transforms |-> b, dset_transforms |-> d.chain]
                : b \in {NoneChain} \cup FuseChains(r),
                  d \in FuseChains(r) \ {Chain(<<>>)} }
            : r \in 1..MaxRank }

-----------------------------------------------------------------------------
(* The calls: one call of a function on chosen arguments, and the calls     *)
(* that pass its result on.                                                  *)

NoHandle == [fs |-> FALSE, store_path |-> <<>>, path |-> <<>>]

Init ==
    /\ op = "none"
    /\ args = <<>>
    /\ ret = [status |-> "none"]
    /\ origin = [op |-> "none"]
    /\ store = <<>>
    /\ pc = "idle"
    /\ parent = NoHandle
    /\ remaining = 0

\* transforms_from_coords(coords, normalize_units, infer_axis_type, transform_precision)
TransformsFromCoords ==
    /\ op = "none"
    /\ \E a \in EncodeArgs :
        /\ op' = "transforms_from_coords"
        /\ args' = a
        /\ ret' = transforms_from_coords(a.coords, a.normalize_units,
                                         a.infer_axis_type, a.transform_precision)
        /\ origin' = [op |-> "none"]
        /\ UNCHANGED <<store, pc, parent, remaining>>

\* coords_to_transforms(coords, normalize_units, infer_axis_type) of latest
CoordsToTransforms ==
    /\ op = "none"
    /\ \E a \in EncodeLatestArgs :
        /\ op' = "coords_to_transforms"
        /\ args' = a
        /\ ret' = coords_to_transforms(a.coords, a.normalize_units, a.infer_axis_type)
        /\ origin' = [op |-> "none"]
        /\ UNCHANGED <<store, pc, parent, remaining>>

\* create_transforms(array, normalize_units, infer_axis_type) of v05, on an
\* array with the coordinates coords
CreateTransforms ==
    /\ op = "none"
    /\ \E a \in EncodeLatestArgs :
        /\ op' = "create_transforms"
        /\ args' = a
        /\ ret' = create_transforms(a.coords, a.normalize_units, a.infer_axis_type)
        /\ origin' = [op |-> "none"]
        /\ UNCHANGED <<store, pc, parent, remaining>>

\* coords_from_transforms(axes, transforms, shape)
CoordsFromTransforms ==
    /\ op = "none"
    /\ \E a \in DecodeArgs :
        /\ op' = "coords_from_transforms"
        /\ args' = a
        /\ ret' = coords_from_transforms(a.axes, a.transforms, a.shape)
        /\ origin' = [op |-> "none"]
        /\ UNCHANGED <<store, pc, parent, remaining>>

\* coords_from_transforms on the axes and transforms transforms_from_coords
\* returned, for the shape of the array the coordinates came from
DecodeEncoded ==
    /\ op = "transforms_from_coords"
    /\ ret.status = "ok"
    /\ LET shape == [i \in 1..Len(args.coords) |-> Len(args.coords[i].data)]
       IN  /\ op' = "coords_from_transforms"
           /\ args' = [axes |-> ret.axes, transforms |-> ret.transforms, shape |-> shape]
           /\ ret' = coords_from_transforms(ret.axes, ret.transforms, shape)
           /\ origin' = [op |-> op, args |-> args]
           /\ UNCHANGED <<store, pc, parent, remaining>>

\* fuse_coordinate_transforms(base_transforms, dset_transforms)
FuseCoordinateTransforms ==
    /\ op = "none"
    /\ \E a \in FuseArgs :
        /\ op' = "fuse_coordinate_transforms"
        /\ args' = a
        /\ ret' = fuse_coordinate_transforms(a.base_transforms, a.dset_transforms)
        /\ origin' = [op |-> "none"]
        /\ UNCHANGED <<store, pc, parent, remaining>>

\* coords_from_transforms on the pair fuse_coordinate_transforms returned,
\* as read_group and read_array call it (lines 431-434, 511-516)
DecodeFused ==
    /\ op = "fuse_coordinate_transforms"
    /\ ret.status = "ok"
    /\ LET r == Len(ret.transforms[1].scale)
       IN  \E shape \in { [i \in 1..r |-> MaxLen], [i \in 1..r |-> i % (MaxLen + 1)] } :
               /\ op' = "coords_from_transforms"
               /\ args' = [axes |-> AxesOfRank(r), transforms |-> ret.transforms,
                           shape |-> shape]
               /\ ret' = coords_from_transforms(AxesOfRank(r), ret.transforms, shape)
               /\ origin' = [op |-> op, args |-> args]
               /\ UNCHANGED <<store, pc, parent, remaining>>

\* multiscale_metadata(arrays) on a dict whose levels may be rejected
MultiscaleMetadataOfCoords ==
    /\ op = "none"
    /\ \E a \in PyramidArgs, strict \in BOOLEAN :
        /\ op' = "multiscale_metadata"
        /\ args' = [arrays |-> a.arrays, version |-> "v04", strict |-> strict]
        /\ ret' = multiscale_metadata(a.arrays, TRUE, TRUE, NoPrecision, strict)
        /\ origin' = [op |-> "none"]
        /\ UNCHANGED <<store, pc, parent, remaining>>

\* create_group(store=store, path="test", arrays=arrays) on an empty store
\* and a dict whose levels may be rejected
CreateGroupOfCoords ==
    /\ op = "none"
    /\ \E a \in PyramidArgs, fs \in BOOLEAN, strict \in BOOLEAN :
        \E made \in { create_group(EmptyStore(fs), fs, IF fs THEN StoreDir ELSE <<>>,
                                   CreatedPath, a.arrays, NoPrecision, strict) } :
            /\ op' = "create_group"
            /\ args' = [arrays |-> a.arrays, fs |-> fs, strict |-> strict,
                        transform_precision |-> NoPrecision]
            /\ store' = made.store
            /\ ret' = [r \in DOMAIN made \ {"store"} |-> made[r]]
            /\ origin' = [op |-> "none"]
            /\ UNCHANGED <<pc, parent, remaining>>

\* get_adapters(version), imported from xarray_ome_ngff.registry
GetAdapters ==
    /\ op = "none"
    /\ \E version \in VersionTags :
        /\ op' = "get_adapters"
        /\ args' = [version |-> version]
        /\ ret' = registry_get_adapters(version)
        /\ origin' = [op |-> "none"]
        /\ UNCHANGED <<store, pc, parent, remaining>>

Next ==
    \/ TransformsFromCoords
    \/ GetAdapters
    \/ MultiscaleMetadataOfCoords
    \/ CreateGroupOfCoords
    \/ CoordsToTransforms
    \/ CreateTransforms
    \/ CoordsFromTransforms
    \/ DecodeEncoded
    \/ FuseCoordinateTransforms
    \/ DecodeFused

Spec == Init /\ [][Next]_vars

-----------------------------------------------------------------------------
(* The hierarchies the readers are called on: a chain of groups of a store, *)
(* in memory or in a directory, the array "s0" in the last group and an     *)
(* array "s1" in every group that lists one.                                 *)

GroupNames == <<"test", "foo", "bar", "baz">>

StoreAxes == << Axis("y", "nanometer", "space"), Axis("x", "nanometer", "space") >>
TargetShape == <<2, 3>>              \* the shape of every "s0"
OtherShape == <<1, 2>>               \* the shape of every "s1"

\* what a group at depth k holds: nothing at all ("none": the group is not
\* there), no multiscale metadata ("plain"), one multiscale listing the
\* target ("T"), the other array ("O") or both ("OT"), or two multiscales,
\* the first listing the other array and the second the target ("O|T")
MetaKinds == {"none", "plain", "T", "O", "OT", "O|T"}
BaseKinds == {"none", "scale", "both"}
DsetKinds == {"scale", "both"}

BaseChainOf(bk, k) ==
    CASE bk = "none" -> NoneChain
      [] bk = "scale" -> Chain(<<VectorScale(<<2, k + 2>>)>>)
      [] bk = "both" -> Chain(<<VectorScale(<<2, k + 2>>), VectorTranslation(<<k + 1, -1>>)>>)

DsetChainOf(dk, k, other) ==
    LET scale == IF other THEN <<k + 1, 7>> ELSE <<k + 1, 3>>
        translation == IF other THEN <<-3, k>> ELSE <<5, k>>
    IN  IF dk = "scale" THEN <<VectorScale(scale)>>
        ELSE <<VectorScale(scale), VectorTranslation(translation)>>

MultiscaleOf(bk, datasets, k) ==
    [axes |-> StoreAxes, datasets |-> datasets, coordinateTransformations |-> BaseChainOf(bk, k)]

\* the path of the group at depth k and of the arrays, within the store
GroupPath(k) == [i \in 1..k |-> GroupNames[i]]
TargetPath(depth) == GroupPath(depth - 1) \o <<"s0">>
OtherPath(k) == GroupPath(k) \o <<"s1">>

\* the node of the group at depth k of a store of the given depth
GroupNode(mk, bk, dk, k, depth) ==
    LET target == [path |-> Suffix(TargetPath(depth), k),
                   coordinateTransformations |-> DsetChainOf(dk, k, FALSE)]
        other == [path |-> <<"s1">>,
                  coordinateTransformations |-> DsetChainOf(dk, k, TRUE)]
    IN  CASE mk = "none" -> [kind |-> "none"]
          [] mk = "plain" -> EmptyGroup
          [] mk = "T" -> [kind |-> "group", attrs |-> [valid |-> TRUE,
                 multiscales |-> <<MultiscaleOf(bk, <<target>>, k)>>]]
          [] mk = "O" -> [kind |-> "group", attrs |-> [valid |-> TRUE,
                 multiscales |-> <<MultiscaleOf(bk, <<other>>, k)>>]]
          [] mk = "OT" -> [kind |-> "group", attrs |-> [valid |-> TRUE,
                 multiscales |-> <<MultiscaleOf(bk, <<other, target>>, k)>>]]
          [] mk = "O|T" -> [kind |-> "group", attrs |-> [valid |-> TRUE,
                 multiscales |-> << MultiscaleOf(bk, <<other>>, k),
                                    MultiscaleOf(bk, <<target>>, k) >>]]

StoreOf(fs, depth, metas, bk, dk) ==
    LET dir == IF fs THEN StoreDir ELSE <<>>
        groups == {dir \o GroupPath(k) : k \in 0..(depth - 1)}
        others == {dir \o OtherPath(k) : k \in {j \in 0..(depth - 1) : metas[j + 1] \in {"O", "OT", "O|T"}}}
        above == IF fs THEN {SubSeq(dir, 1, n) : n \in 0..(Len(dir) - 1)} ELSE {}
        target == dir \o TargetPath(depth)
    IN  [l \in groups \cup others \cup above \cup {target} |->
            IF l = target THEN [kind |-> "array", shape |-> TargetShape]
            ELSE IF l \in others THEN [kind |-> "array", shape |-> OtherShape]
            ELSE IF l \in above THEN [kind |-> "dir"]
            ELSE GroupNode(metas[Len(l) - Len(dir) + 1], bk, dk, Len(l) - Len(dir), depth)]

\* a store in memory that holds one array, at its root:
\* open_array(store=store, path="", ...)
RootArrayStore == [l \in {<<>>} |-> [kind |-> "array", shape |-> TargetShape]]

Stores ==
    UNION { { StoreOf(fs, depth, metas, bk, dk)
                : fs \in BOOLEAN, metas \in [1..depth -> MetaKinds],
                  bk \in BaseKinds, dk \in DsetKinds }
            : depth \in 1..MaxDepth }
    \cup {RootArrayStore}

\* whether the store is a directory store, and the handles of its nodes
IsDirectoryStore(st) == <<>> \in DOMAIN st /\ st[<<>>].kind = "dir"
HandleIn(st, loc) ==
    IF IsDirectoryStore(st)
    THEN [fs |-> TRUE, store_path |-> StoreDir, path |-> Suffix(loc, Len(StoreDir))]
    ELSE [fs |-> FALSE, store_path |-> <<>>, path |-> loc]
Handles(st, kind) ==
    { HandleIn(st, loc) : loc \in {l \in DOMAIN st : st[l].kind = kind} }

\* the array and group nodes as zarr can open them: a node of a store in
\* memory by its path, a node on disk through a directory store rooted at
\* the directory of the hierarchy or at any directory between it and the node
CoreHandles(st) ==
    LET nodes == {l \in DOMAIN st : st[l].kind \in {"array", "group"}}
    IN  IF IsDirectoryStore(st)
        THEN UNION { { [fs |-> TRUE, store_path |-> SubSeq(loc, 1, n), path |-> Suffix(loc, n)]
                         : n \in Len(StoreDir)..Len(loc) } : loc \in nodes }
        ELSE { HandleIn(st, loc) : loc \in nodes }

-----------------------------------------------------------------------------
(* The readers called on a hierarchy.                                        *)

InitStore ==
    /\ op = "none"
    /\ args = <<>>
    /\ ret = [status |-> "none"]
    /\ origin = [op |-> "none"]
    /\ store \in Stores
    /\ pc = "idle"
    /\ parent = NoHandle
    /\ remaining = 0

\* read_group(group, multiscales_index=...)
ReadGroup ==
    /\ op = "none"
    /\ \E g \in Handles(store, "group"), i \in {0, 1} :
        /\ op' = "read_group"
        /\ args' = [group |-> g, multiscales_index |-> i]
        /\ ret' = read_group(store, g, i)
        /\ UNCHANGED <<origin, store, pc, parent, remaining>>

\* get_parent(node) of v04/multiscale.py, called on its own on a group or an
\* array: the parent is opened in the default mode of zarr.open_group, which
\* leaves a group there, and at every path above it, where there was none
GetParent ==
    /\ op = "none"
    /\ \E node \in CoreHandles(store) :
        LET opened == get_parent(store, node)
        IN  /\ op' = "v04.get_parent"
            /\ args' = [node |-> node]
            /\ store' = opened.store
            /\ ret' = IF opened.status = "ok"
                      THEN [status |-> "ok", node |-> opened.node]
                      ELSE [status |-> opened.status]
            /\ UNCHANGED <<origin, pc, parent, remaining>>

\* read_array(array) up to its loop (lines 484-497)
ReadArrayBegin ==
    /\ op = "none"
    /\ \E a \in {h \in CoreHandles(store) : NodeAt(store, Location(h)).kind = "array"} :
        LET opened == get_parent(store, a)
        IN  /\ op' = "read_array"
            /\ args' = [array |-> a]
            /\ store' = opened.store
            /\ parent' = opened.node
            /\ remaining' = NumParents(a)
            /\ IF opened.status = "ok"
               THEN pc' = "loop" /\ ret' = [status |-> "running"]
               ELSE pc' = "done" /\ ret' = Raised(opened.status)
            /\ UNCHANGED origin

\* one iteration of the loop of read_array (lines 498-520)
ReadArrayIterate ==
    /\ pc = "loop"
    /\ remaining > 0
    /\ LET body == LoopBody(store, args.array, parent)
           opened == get_parent(store, parent)
       IN  CASE body.does = "return" ->
                  /\ ret' = body.value
                  /\ pc' = "done"
                  /\ UNCHANGED <<store, parent>>
             [] body.does = "raise" ->
                  /\ ret' = body.value
                  /\ pc' = "done"
                  /\ UNCHANGED <<store, parent>>
             [] body.does = "stay" ->
                  UNCHANGED <<ret, pc, store, parent>>
             [] body.does = "ascend" ->
                  /\ store' = opened.store
                  /\ parent' = opened.node
                  /\ IF opened.status = "ok"
                     THEN UNCHANGED <<ret, pc>>
                     ELSE pc' = "done" /\ ret' = Raised(opened.status)
    /\ remaining' = remaining - 1
    /\ UNCHANGED <<op, args, origin>>

\* the loop of read_array ran out (lines 521-524)
ReadArrayNotFound ==
    /\ pc = "loop"
    /\ remaining = 0
    /\ ret' = Raised("FileNotFoundError")
    /\ pc' = "done"
    /\ UNCHANGED <<op, args, origin, store, parent, remaining>>

\* get_parent(node) of core.py
CoreGetParent ==
    /\ op = "none"
    /\ \E node \in CoreHandles(store) :
        /\ op' = "get_parent"
        /\ args' = [node |-> node]
        /\ ret' = core_get_parent(store, node)
        /\ UNCHANGED <<origin, store, pc, parent, remaining>>

\* iter_parents(node) is called, on a node of the hierarchy or on the array
\* a read_array has just been through: the generator is at its first line
IterParentsBegin ==
    /\ op = "none" \/ (op = "read_array" /\ pc = "done")
    /\ \E node \in (IF op = "none" THEN CoreHandles(store) ELSE {args.array}) :
        /\ op' = "iter_parents"
        /\ args' = [node |-> node]
        /\ parent' = node
        /\ ret' = [status |-> "running", yielded |-> <<>>]
        /\ pc' = "iter"
        /\ UNCHANGED <<origin, store, remaining>>

\* one iteration of the loop of iter_parents (lines 58-64): the parent of
\* node_current is yielded, or the generator returns, or the exception that
\* is not a GroupNotFoundError leaves it; the caller takes up to MaxYield
\* groups
IterParentsNext ==
    /\ op = "iter_parents"
    /\ pc = "iter"
    /\ Len(ret.yielded) < MaxYield
    /\ LET got == core_get_parent(store, parent)
       IN  CASE got.status = "ok" ->
                  /\ ret' = [ret EXCEPT !.yielded = Append(@, got.node)]
                  /\ parent' = got.node
                  /\ pc' = "iter"
             [] got.status \in {"GroupNotFoundError", "GroupUnreachableError"} ->
                  /\ ret' = [ret EXCEPT !.status = "ok"]
                  /\ pc' = "done"
                  /\ UNCHANGED parent
             [] OTHER ->
                  /\ ret' = [ret EXCEPT !.status = got.status]
                  /\ pc' = "done"
                  /\ UNCHANGED parent
    /\ UNCHANGED <<op, args, origin, store, remaining>>

NextStore ==
    \/ ReadGroup
    \/ GetParent
    \/ CoreGetParent
    \/ IterParentsBegin
    \/ IterParentsNext
    \/ ReadArrayBegin
    \/ ReadArrayIterate
    \/ ReadArrayNotFound

SpecStore == InitStore /\ [][NextStore]_vars

-----------------------------------------------------------------------------
(* Pyramids: up to MaxLevels levels in any order. A level has Samples(n)    *)
(* samples on every axis, the coarser the level the larger its step; its    *)
(* dimensions are y, x in nanometer unless it deviates in one respect.      *)

MaxLevels == 2

LevelSamples == {2, 3}
Deviations == {"none", "abbreviated", "micrometer", "unknown", "transposed", "volume"}

LevelDims(deviation) ==
    CASE deviation = "transposed" -> <<"x", "y">>
      [] deviation = "volume" -> <<"z", "y", "x">>
      [] OTHER -> <<"y", "x">>

LevelUnits(deviation) ==
    CASE deviation = "abbreviated" -> "nm"
      [] deviation = "micrometer" -> "um"
      [] deviation = "unknown" -> "voxels"
      [] OTHER -> "nanometer"

\* the array of a level: on axis i the samples start at 10 * i and are
\* i * step apart, the step being 1 for 3 samples and 2 for 2
Level(n, deviation) ==
    LET dims == LevelDims(deviation)
        step == 4 - n
    IN  [shape |-> [i \in 1..Len(dims) |-> n],
         coords |-> [i \in 1..Len(dims) |->
                        [dim |-> dims[i], dims |-> <<dims[i]>>,
                         data |-> [k \in 1..n |-> 10 * i + (k - 1) * i * step],
                         attrs |-> [units |-> LevelUnits(deviation), type |-> None]]],
         name |-> <<deviation, IF n = 3 THEN "fine" ELSE "coarse">>,
         values |-> <<"values", n, deviation>>]

Levels == { Level(n, deviation) : n \in LevelSamples, deviation \in Deviations }

LevelNames == <<"s0", "s1", "s2", "s3">>
PathPrefixes == { <<>>, <<"foo">> }

\* the dict of a pyramid: the i-th level under the i-th name
Pyramids ==
    UNION { { [i \in 1..n |-> [path |-> prefix \o <<LevelNames[i]>>, array |-> levels[i]]]
                : levels \in [1..n -> Levels], prefix \in PathPrefixes }
            : n \in 0..MaxLevels }


-----------------------------------------------------------------------------
(* The pyramid functions called on a pyramid.                               *)

InitPyramid ==
    /\ op = "none"
    /\ args \in { [arrays |-> p] : p \in Pyramids }
    /\ ret = [status |-> "none"]
    /\ origin = [op |-> "none"]
    /\ store = <<>>
    /\ pc = "idle"
    /\ parent = NoHandle
    /\ remaining = 0

\* multiscale_metadata(arrays)
MultiscaleMetadataV04 ==
    /\ op = "none"
    /\ \E strict \in BOOLEAN :
        /\ op' = "multiscale_metadata"
        /\ args' = [arrays |-> args.arrays, version |-> "v04", strict |-> strict]
        /\ ret' = multiscale_metadata(args.arrays, TRUE, TRUE, NoPrecision, strict)
    /\ pc' = "done"
    /\ UNCHANGED <<origin, store, parent, remaining>>

\* multiscale_metadata(arrays, array_paths=...) of latest/multiscales.py and
\* create_multiscale(arrays, array_paths=...) of v05/multiscales.py
MultiscaleMetadataLatest ==
    /\ op = "none"
    /\ \E strict \in BOOLEAN, version \in {"latest", "v05"},
          array_paths \in {NoPaths, Paths(PathsOf(args.arrays))} :
        /\ op' = "multiscale_metadata"
        /\ args' = [arrays |-> args.arrays, version |-> version, strict |-> strict,
                    array_paths |-> array_paths]
        /\ ret' = create_multiscale([i \in 1..Len(args.arrays) |-> args.arrays[i].array],
                                    array_paths, TRUE, TRUE, strict, version)
    /\ pc' = "done"
    /\ UNCHANGED <<origin, store, parent, remaining>>

\* model_group(arrays=arrays)
ModelGroup ==
    /\ op = "none"
    /\ \E strict \in BOOLEAN :
        /\ op' = "model_group"
        /\ args' = [arrays |-> args.arrays, strict |-> strict]
        /\ ret' = model_group(args.arrays, NoPrecision, strict)
    /\ pc' = "done"
    /\ UNCHANGED <<origin, store, parent, remaining>>

\* create_group(store=store, path="test", arrays=arrays, transform_precision=8)
CreateGroup ==
    /\ op = "none"
    /\ \E fs \in BOOLEAN, strict \in BOOLEAN :
        \E made \in { create_group(EmptyStore(fs), fs, IF fs THEN StoreDir ELSE <<>>,
                                   CreatedPath, args.arrays, Precision(8), strict) } :
            /\ op' = "create_group"
            /\ args' = [arrays |-> args.arrays, fs |-> fs, strict |-> strict,
                        transform_precision |-> Precision(8)]
            /\ store' = made.store
            /\ ret' = [r \in DOMAIN made \ {"store"} |-> made[r]]
            /\ pc' = IF made.status = "ok" THEN "created" ELSE "done"
    /\ UNCHANGED <<origin, parent, remaining>>

\* for path, arr in arrays.items(): zarr_group[path][:] = arr.data
WriteData ==
    /\ op = "create_group"
    /\ pc = "created"
    /\ LET here == Location(ret.group)
           valuesAt(loc) == LET i == CHOOSE i \in 1..Len(args.arrays) :
                                         here \o args.arrays[i].path = loc
                            IN  args.arrays[i].array.values
       IN  store' = [l \in DOMAIN store |->
                        IF store[l].kind = "array"
                        THEN [store[l] EXCEPT !.values = valuesAt(l)]
                        ELSE store[l]]
    /\ pc' = "written"
    /\ UNCHANGED <<op, args, ret, origin, parent, remaining>>

\* read_group(zarr_group) on the group that was created
ReadCreatedGroup ==
    /\ op = "create_group"
    /\ pc = "written"
    /\ op' = "read_group"
    /\ origin' = [op |-> op, args |-> args]
    /\ args' = [group |-> ret.group, multiscales_index |-> 0]
    /\ ret' = read_group(store, ret.group, 0)
    /\ pc' = "done"
    /\ UNCHANGED <<store, parent, remaining>>

NextPyramid ==
    \/ MultiscaleMetadataV04
    \/ MultiscaleMetadataLatest
    \/ ModelGroup
    \/ CreateGroup
    \/ WriteData
    \/ ReadCreatedGroup

SpecPyramid == InitPyramid /\ [][NextPyramid]_vars

-----------------------------------------------------------------------------
(* Properties of the codec.                                                  *)

\* the call at hand decodes what an encoding without rounding returned
DecodesUnrounded ==
    /\ op = "coords_from_transforms"
    /\ origin.op = "transforms_from_coords"
    /\ origin.args.transform_precision = NoPrecision

\* C1 as stated: encoding a coordinate of at least two samples without
\* rounding and decoding the result for the same shape gives back the first
\* two samples, whether the coordinate increases or decreases.
C1_RoundTripAnyDirection ==
    DecodesUnrounded =>
        /\ ret.status = "ok"
        /\ \A i \in 1..Len(origin.args.coords) :
              LET data == origin.args.coords[i].data
              IN  Len(data) >= 2 =>
                      /\ ret.coords[i].data[1] = data[1]
                      /\ ret.coords[i].data[2] = data[2]

\* C1 amended: the first sample always comes back; the second sample comes
\* back exactly when the coordinate does not decrease, and otherwise the
\* decoded second sample is first + |second - first|.
C1_RoundTripNonDecreasing ==
    DecodesUnrounded =>
        /\ ret.status = "ok"
        /\ \A i \in 1..Len(origin.args.coords) :
              LET data == origin.args.coords[i].data
              IN  Len(data) >= 2 =>
                      /\ ret.coords[i].data[1] = data[1]
                      /\ ret.coords[i].data[2] = data[1] + Abs(data[2] - data[1])
                      /\ (ret.coords[i].data[2] = data[2]) <=> (data[2] >= data[1])

\* a round trip of an increasing and of a decreasing coordinate
C1_Witness ==
    /\ DecodesUnrounded
    /\ ret.status = "ok"
    /\ \E i, j \in 1..Len(origin.args.coords) :
          /\ Len(origin.args.coords[i].data) >= 2
          /\ origin.args.coords[i].data[2] > origin.args.coords[i].data[1]
          /\ Len(origin.args.coords[j].data) >= 2
          /\ origin.args.coords[j].data[2] < origin.args.coords[j].data[1]

\* the arguments of a decode the decoder accepts: as many axes as shape
\* entries, literal transforms of one parameter per axis
LiteralChain(transforms, naxes) ==
    \A j \in 1..Len(transforms) :
        LET tx == transforms[j]
        IN  /\ ~HasPath(tx)
            /\ tx.type \in {"scale", "translation", "identity"}
            /\ tx.type = "scale" => Len(tx.scale) = naxes
            /\ tx.type = "translation" => Len(tx.translation) = naxes

\* x taken through the transforms j.. of a chain, on axis i
RECURSIVE ThroughChain(_, _, _, _)
ThroughChain(transforms, j, i, x) ==
    IF j > Len(transforms) THEN x
    ELSE LET tx == transforms[j]
             y == CASE tx.type = "scale" -> x * tx.scale[i]
                    [] tx.type = "translation" -> x + tx.translation[i]
                    [] OTHER -> x
         IN  ThroughChain(transforms, j + 1, i, y)

IsScaleTranslation(transforms) ==
    /\ Len(transforms) = 2
    /\ ~HasPath(transforms[1]) /\ transforms[1].type = "scale"
    /\ ~HasPath(transforms[2]) /\ transforms[2].type = "translation"

\* C2: the decoder returns one coordinate per axis, in order, named after the
\* axis and carrying its unit, of shape[i] samples, sample k being k taken
\* through the chain on axis i; for [Scale(s), Translation(t)] that is
\* k * s[i] + t[i].
C2_Decode ==
    ( /\ op = "coords_from_transforms"
      /\ Len(args.axes) = Len(args.shape)
      /\ LiteralChain(args.transforms, Len(args.axes)) ) =>
        /\ ret.status = "ok"
        /\ Len(ret.coords) = Len(args.axes)
        /\ \A i \in 1..Len(args.axes) :
              /\ ret.coords[i].dims = <<args.axes[i].name>>
              /\ ret.coords[i].attrs.units = args.axes[i].unit
              /\ Len(ret.coords[i].data) = args.shape[i]
              /\ \A k \in 1..args.shape[i] :
                    /\ ret.coords[i].data[k] = ThroughChain(args.transforms, 1, i, k - 1)
                    /\ IsScaleTranslation(args.transforms) =>
                          ret.coords[i].data[k] =
                              (k - 1) * args.transforms[1].scale[i]
                                  + args.transforms[2].translation[i]

\* a decode of [Scale, Translation] on two axes of different parameters and
\* of more than one sample
C2_Witness ==
    /\ op = "coords_from_transforms"
    /\ ret.status = "ok"
    /\ IsScaleTranslation(args.transforms)
    /\ Len(args.axes) >= 2
    /\ args.shape[1] > 1 /\ args.shape[2] > 1
    /\ args.transforms[1].scale[1] # args.transforms[1].scale[2]
    /\ args.transforms[2].translation[1] # args.transforms[2].translation[2]

\* the coordinates the encoder accepts: one dimension, its own, a sample, a
\* unit of the registry
Encodable(coords) ==
    \A i \in 1..Len(coords) :
        /\ coords[i].dims = <<coords[i].dim>>
        /\ Len(coords[i].data) >= 1
        /\ AttrGet(coords[i].attrs, "units") \in KnownUnits \cup {None}

\* |second - first| for more than one sample, 1 for one sample
InferredScale(data) == IF Len(data) > 1 THEN Abs(data[2] - data[1]) ELSE 1

\* y is x rounded to a multiple of unit
RoundedTo(y, x, unit) == y % unit = 0 /\ 2 * Abs(y - x) <= unit

\* the shape of the encoder's result: one axis, factor and offset per
\* coordinate, in order, the axis named after the coordinate's dimension
C3_Shape ==
    /\ ret.status = "ok"
    /\ Len(ret.axes) = Len(args.coords)
    /\ Len(ret.transforms) = 2
    /\ ret.transforms[1].type = "scale"
    /\ Len(ret.transforms[1].scale) = Len(args.coords)
    /\ ret.transforms[2].type = "translation"
    /\ Len(ret.transforms[2].translation) = Len(args.coords)
    /\ \A i \in 1..Len(args.coords) : ret.axes[i].name = args.coords[i].dim

\* C3 as stated: translation = first sample and scale = |second - first| (1
\* for a single sample) at every coordinate's position, whatever the call.
C3_EncodeAnyPrecision ==
    (op = "transforms_from_coords" /\ Encodable(args.coords)) =>
        /\ C3_Shape
        /\ \A i \in 1..Len(args.coords) :
              /\ ret.transforms[2].translation[i] = args.coords[i].data[1]
              /\ ret.transforms[1].scale[i] = InferredScale(args.coords[i].data)

\* C3 amended: these are the values when transform_precision is None; with a
\* transform_precision they are these values rounded to that many decimals.
C3_Encode ==
    (op = "transforms_from_coords" /\ Encodable(args.coords)) =>
        /\ C3_Shape
        /\ \A i \in 1..Len(args.coords) :
              LET first == args.coords[i].data[1]
                  scale == InferredScale(args.coords[i].data)
              IN  IF args.transform_precision = NoPrecision
                  THEN /\ ret.transforms[2].translation[i] = first
                       /\ ret.transforms[1].scale[i] = scale
                  ELSE LET unit == Pow10(-args.transform_precision[1])
                       IN  /\ RoundedTo(ret.transforms[2].translation[i], first, unit)
                           /\ RoundedTo(ret.transforms[1].scale[i], scale, unit)

\* an encoding without rounding of a coordinate of one sample and of a
\* coordinate of several samples whose first sample is not the last
C3_Witness ==
    /\ op = "transforms_from_coords"
    /\ ret.status = "ok"
    /\ args.transform_precision = NoPrecision
    /\ \E i, j \in 1..Len(args.coords) :
          /\ Len(args.coords[i].data) = 1
          /\ Len(args.coords[j].data) > 1
          /\ args.coords[j].data[1] # args.coords[j].data[Len(args.coords[j].data)]

-----------------------------------------------------------------------------
(* Properties of the fusion.                                                 *)

Fuses == op = "fuse_coordinate_transforms"

NoBase == args.base_transforms.isNone \/ args.base_transforms = Chain(<<>>)

BaseHasTranslation == ~NoBase /\ Len(args.base_transforms.chain) = 2
DsetHasTranslation == Len(args.dset_transforms) = 2

\* C4: without a base chain the result is the dataset's scale with the
\* dataset's translation, or with zeros if it has none.
C4_FuseWithoutBase ==
    (Fuses /\ NoBase) =>
        /\ ret.status = "ok"
        /\ ret.transforms[1] = args.dset_transforms[1]
        /\ ret.transforms[2] =
              IF DsetHasTranslation THEN args.dset_transforms[2]
              ELSE VectorTranslation(Zeros(Len(args.dset_transforms[1].scale)))

\* fusions without a base chain, None and empty, the dataset chain with and
\* without a translation
C4_Witness ==
    /\ Fuses /\ NoBase
    /\ ret.status = "ok"
    /\ DsetHasTranslation
    /\ args.dset_transforms[2].translation # Zeros(Len(args.dset_transforms[1].scale))

\* C5: with a base chain the fused scale is the elementwise product of the
\* two scales, for every combination of translations.
C5_FusedScale ==
    (Fuses /\ ~NoBase) =>
        /\ ret.status = "ok"
        /\ ret.transforms[1].type = "scale"
        /\ Len(ret.transforms[1].scale) = Len(args.dset_transforms[1].scale)
        /\ \A i \in 1..Len(args.dset_transforms[1].scale) :
              ret.transforms[1].scale[i] =
                  args.base_transforms.chain[1].scale[i] * args.dset_transforms[1].scale[i]

\* C6: with a base chain, no translation in either chain gives zeros, and a
\* translation in exactly one chain gives that translation.
C6_FusedSingleTranslation ==
    (Fuses /\ ~NoBase /\ ~(BaseHasTranslation /\ DsetHasTranslation)) =>
        /\ ret.status = "ok"
        /\ ret.transforms[2] =
              IF BaseHasTranslation THEN args.base_transforms.chain[2]
              ELSE IF DsetHasTranslation THEN args.dset_transforms[2]
              ELSE VectorTranslation(Zeros(Len(args.dset_transforms[1].scale)))

\* C7: with a translation in both chains the fused translation is their
\* elementwise sum.
C7_FusedBothTranslations ==
    (Fuses /\ BaseHasTranslation /\ DsetHasTranslation) =>
        /\ ret.status = "ok"
        /\ ret.transforms[2].type = "translation"
        /\ \A i \in 1..Len(args.dset_transforms[2].translation) :
              ret.transforms[2].translation[i] =
                  args.base_transforms.chain[2].translation[i]
                      + args.dset_transforms[2].translation[i]

-----------------------------------------------------------------------------
(* Properties of the readers.                                                *)

\* the scale and the translation that the fusion of a multiscale's chain
\* with a dataset's chain stands for, on axis i: the product of the scales,
\* the sum of the translations there are
EffectiveScale(base, dset, i) ==
    IF base.isNone THEN dset[1].scale[i]
    ELSE IF base.chain = <<>> THEN dset[1].scale[i]
    ELSE base.chain[1].scale[i] * dset[1].scale[i]

EffectiveTranslation(base, dset, i) ==
    LET b == IF base.isNone THEN 0
             ELSE IF Len(base.chain) < 2 THEN 0
             ELSE base.chain[2].translation[i]
        d == IF Len(dset) < 2 THEN 0 ELSE dset[2].translation[i]
    IN  b + d

\* the coordinates of an array of a shape under a dataset of a multiscale
ExpectedCoords(multi, dset, shape) ==
    [i \in 1..Len(multi.axes) |->
        [dims |-> <<multi.axes[i].name>>,
         data |-> [k \in 1..shape[i] |->
                      (k - 1) * EffectiveScale(multi.coordinateTransformations,
                                               dset.coordinateTransformations, i)
                          + EffectiveTranslation(multi.coordinateTransformations,
                                                 dset.coordinateTransformations, i)],
         attrs |-> [units |-> multi.axes[i].unit]]]

\* the multiscales of the group at a location, <<>> if it holds none
MultiscalesAt(loc) ==
    LET node == NodeAt(store, loc)
    IN  IF node.kind = "group" /\ node.attrs.valid THEN node.attrs.multiscales ELSE <<>>

\* read_group was called on a group that parses, for a multiscale it has
ReadsMultiscale ==
    /\ op = "read_group"
    /\ args.multiscales_index + 1 <= Len(MultiscalesAt(Location(args.group)))

\* C8: read_group returns one entry per dataset of the multiscale, keyed by
\* its path, holding the stored array and the coordinates of the fused chain
\* for the array's shape.
C8_ReadGroup ==
    ReadsMultiscale =>
        LET multi == MultiscalesAt(Location(args.group))[args.multiscales_index + 1]
        IN  /\ ret.status = "ok"
            /\ DOMAIN ret.arrays = {multi.datasets[d].path : d \in 1..Len(multi.datasets)}
            /\ \A d \in 1..Len(multi.datasets) :
                  LET dset == multi.datasets[d]
                      loc == Location(args.group) \o dset.path
                  IN  /\ ret.arrays[dset.path].data = loc
                      /\ ret.arrays[dset.path].coords =
                             ExpectedCoords(multi, dset, store[loc].shape)

\* the ancestors of the array read_array was called on, nearest first
AncestorsOf(loc) == [n \in 1..Len(loc) |-> SubSeq(loc, 1, Len(loc) - n)]

\* the group at a location lists the array at full_path among its datasets
Governs(loc, full_path) ==
    Matches(MultiscalesAt(loc), Suffix(full_path, Len(loc)), 1, 1) # <<>>

GoverningAncestors(full_path) ==
    {n \in 1..Len(full_path) : Governs(AncestorsOf(full_path)[n], full_path)}

NearestGoverning(full_path) ==
    LET n == CHOOSE n \in GoverningAncestors(full_path) :
                 \A o \in GoverningAncestors(full_path) : n <= o
    IN  AncestorsOf(full_path)[n]

ReadArrayDone == op = "read_array" /\ pc = "done"

\* C9: read_array ends at the nearest ancestor that parses as a multiscale
\* group and lists the array; every ancestor that does not is passed over.
C9_NearestGoverningAncestor ==
    (ReadArrayDone /\ GoverningAncestors(Location(args.array)) # {}) =>
        /\ "from" \in DOMAIN ret
        /\ ret.from = NearestGoverning(Location(args.array))

\* the array lies two levels below the group that lists it, under a group
\* without multiscale metadata
TwoLevelsBelow(full_path) ==
    /\ Len(full_path) >= 2
    /\ Governs(AncestorsOf(full_path)[2], full_path)
    /\ NodeAt(store, AncestorsOf(full_path)[1]).kind = "group"
    /\ ~NodeAt(store, AncestorsOf(full_path)[1]).attrs.valid

\* C10: read_array of an array two levels below its multiscale group
\* succeeds with the coordinates of that group's base chain fused with the
\* matched dataset's chain, for the array's shape.
C10_ReadArrayTwoLevelsBelow ==
    (ReadArrayDone /\ TwoLevelsBelow(Location(args.array))) =>
        LET full_path == Location(args.array)
            group == AncestorsOf(full_path)[2]
            hit == Matches(MultiscalesAt(group), Suffix(full_path, Len(group)), 1, 1)
            multi == MultiscalesAt(group)[hit[1]]
        IN  /\ ret.status = "ok"
            /\ ret.data = full_path
            /\ ret.coords = ExpectedCoords(multi, multi.datasets[hit[2]],
                                           store[full_path].shape)

\* no ancestor of the array parses as a group that lists it
Ungoverned == GoverningAncestors(Location(args.array)) = {}

\* C11: when no ancestor parses as a multiscale group that lists the array,
\* read_array runs its loop at most once per component of the array's full
\* path and then ends with FileNotFoundError, and with no other error.
\* (Termination: the number of iterations left is never negative, a call
\* in its loop can always take its next step, and every step of the loop
\* uses up an iteration or ends the call.)
C11_NotFound ==
    /\ [](op = "read_array" => remaining \in 0..NumParents(args.array))
    /\ [](pc = "loop" => LoopBody(store, args.array, parent).does
                              \in {"return", "raise", "stay", "ascend"})
    /\ [][pc = "loop" => (remaining' < remaining \/ pc' = "done")]_vars
    /\ []((ReadArrayDone /\ Ungoverned) => ret.status = "FileNotFoundError")

-----------------------------------------------------------------------------
(* Properties of the pyramid functions.                                      *)

\* read_group was called on the group create_group made of a pyramid
ReadBack == op = "read_group" /\ origin.op = "create_group"

\* sample k = translation + k * scale with scale > 0, and a 'units' attribute
RegularWithUnits(c) ==
    /\ Len(c.data) >= 1
    /\ Len(c.data) > 1 => c.data[2] > c.data[1]
    /\ \A k \in 1..Len(c.data) : c.data[k] = c.data[1] + (k - 1) * (c.data[2] - c.data[1])
    /\ c.attrs.units # None

RegularPyramid(arrays) ==
    \A i \in 1..Len(arrays) : \A a \in 1..Len(arrays[i].array.coords) :
        RegularWithUnits(arrays[i].array.coords[a])

\* the levels have the same dimensions and, up to their spelling, units
SameAxes(arrays) ==
    \A i \in 1..Len(arrays) :
        /\ Len(arrays[i].array.coords) = Len(arrays[1].array.coords)
        /\ \A a \in 1..Len(arrays[i].array.coords) :
              /\ arrays[i].array.coords[a].dim = arrays[1].array.coords[a].dim
              /\ ureg_get_name(arrays[i].array.coords[a].attrs.units)
                     = ureg_get_name(arrays[1].array.coords[a].attrs.units)

\* the array read under a path has the values, the dimensions and the
\* coordinate values of the level, and its units as unitOf gives them
ReadsLevel(it, unitOf(_)) ==
    /\ it.path \in DOMAIN ret.arrays
    /\ store[ret.arrays[it.path].data].values = it.array.values
    /\ store[ret.arrays[it.path].data].shape = it.array.shape
    /\ Len(ret.arrays[it.path].coords) = Len(it.array.coords)
    /\ \A a \in 1..Len(it.array.coords) :
          /\ ret.arrays[it.path].coords[a].dims = it.array.coords[a].dims
          /\ ret.arrays[it.path].coords[a].data = it.array.coords[a].data
          /\ ret.arrays[it.path].coords[a].attrs.units = unitOf(it.array.coords[a].attrs.units)

SameUnit(units) == units

\* C12 as it was stated: a regular pyramid with units that was created,
\* written and read comes back equal under every path, units included.
C12_StoreRoundTripVerbatim ==
    (ReadBack /\ RegularPyramid(origin.args.arrays) /\ SameAxes(origin.args.arrays)) =>
        /\ ret.status = "ok"
        /\ \A i \in 1..Len(origin.args.arrays) :
              ReadsLevel(origin.args.arrays[i], SameUnit)

\* C12: a regular pyramid with units, the same dimensions and units on every
\* level, that was created, written and read comes back under every path
\* with its values, dimension names and coordinate values, and with the
\* canonical names of its units.
C12_StoreRoundTrip ==
    (ReadBack /\ RegularPyramid(origin.args.arrays) /\ SameAxes(origin.args.arrays)) =>
        /\ ret.status = "ok"
        /\ \A i \in 1..Len(origin.args.arrays) :
              ReadsLevel(origin.args.arrays[i], ureg_get_name)

\* a pyramid of two levels, the smaller one first, under nested paths and
\* with abbreviated units, was read back
C12_Witness ==
    /\ ReadBack
    /\ ret.status = "ok"
    /\ Len(origin.args.arrays) = 2
    /\ RegularPyramid(origin.args.arrays) /\ SameAxes(origin.args.arrays)
    /\ Len(origin.args.arrays[1].path) = 2
    /\ Prod(origin.args.arrays[1].array.shape) < Prod(origin.args.arrays[2].array.shape)
    /\ origin.args.arrays[1].array.coords[1].attrs.units = "nm"
    /\ ReadsLevel(origin.args.arrays[2], ureg_get_name)

\* a Multiscale was built from the levels
BuiltMultiscale == op = "multiscale_metadata" /\ ret.status = "ok"

\* the path under which the i-th level was supplied: its key in v04, the
\* i-th of array_paths or else its name in the other variants
SuppliedPath(i) ==
    IF args.version = "v04" THEN args.arrays[i].path
    ELSE IF ~args.array_paths.isNone THEN args.array_paths.paths[i]
    ELSE args.arrays[i].array.name

\* the arrays that were supplied for a path
SuppliedFor(path) ==
    { args.arrays[i].array : i \in {j \in 1..Len(args.arrays) : SuppliedPath(j) = path} }

\* C13: a Multiscale built from N levels has N datasets, listed by
\* non-increasing element count of the arrays supplied for their paths.
C13_DatasetsByDecreasingSize ==
    BuiltMultiscale =>
        /\ Len(ret.multiscale.datasets) = Len(args.arrays)
        /\ \A i, j \in 1..Len(ret.multiscale.datasets) :
              i < j => \A a \in SuppliedFor(ret.multiscale.datasets[i].path),
                          b \in SuppliedFor(ret.multiscale.datasets[j].path) :
                          Prod(a.shape) >= Prod(b.shape)

\* the chain the encoder of the variant infers from an array
InferredChain(array) ==
    IF args.version = "v04"
    THEN transforms_from_coords(array.coords, TRUE, TRUE, NoPrecision).transforms
    ELSE coords_to_transforms(array.coords, TRUE, TRUE).transforms

\* C14: every dataset of a Multiscale that was built pairs its path with
\* the chain inferred from the array supplied for that path.
C14_PathWithItsTransform ==
    BuiltMultiscale =>
        \A d \in 1..Len(ret.multiscale.datasets) :
            /\ SuppliedFor(ret.multiscale.datasets[d].path) # {}
            /\ \A a \in SuppliedFor(ret.multiscale.datasets[d].path) :
                  ret.multiscale.datasets[d].coordinateTransformations = InferredChain(a)

\* the ranks of the levels
RanksOf(arrays) == { Len(arrays[i].array.shape) : i \in 1..Len(arrays) }

\* C15: the assembly of levels of different ranks raises the error that
\* reports the ranks, and builds nothing.
C15_RankMismatch ==
    (op = "multiscale_metadata" /\ Cardinality(RanksOf(args.arrays)) > 1) =>
        /\ ret.status = "ValueError"
        /\ "ndims" \in DOMAIN ret
        /\ ret.ndims = RanksOf(args.arrays)

\* the Axis lists model_group derives from the levels
DerivedAxes(arrays) ==
    { transforms_from_coords(arrays[i].array.coords, TRUE, TRUE, NoPrecision).axes
        : i \in 1..Len(arrays) }

\* every level is one the encoder accepts
Encodes(arrays) ==
    \A i \in 1..Len(arrays) :
        transforms_from_coords(arrays[i].array.coords, TRUE, TRUE, NoPrecision).status = "ok"

\* C16: model_group on levels of one rank whose Axis lists differ raises
\* the error that reports the number of distinct Axis lists, and builds no
\* group.
C16_InconsistentAxes ==
    (/\ op = "model_group"
     /\ Encodes(args.arrays)
     /\ Cardinality(RanksOf(args.arrays)) = 1
     /\ Cardinality(DerivedAxes(args.arrays)) > 1) =>
        /\ ret.status = "ValueError"
        /\ "unique_axes" \in DOMAIN ret
        /\ ret.unique_axes = Cardinality(DerivedAxes(args.arrays))

-----------------------------------------------------------------------------
(* Properties of the decoder's errors.                                       *)

\* the positions of the chain holding a transform with a path
PathPositions(transforms) == { j \in 1..Len(transforms) : HasPath(transforms[j]) }

\* a literal transform with one parameter per axis, or the identity
WellFormed(tx, naxes) ==
    /\ ~HasPath(tx)
    /\ \/ tx.type = "identity"
       \/ tx.type = "scale" /\ Len(tx.scale) = naxes
       \/ tx.type = "translation" /\ Len(tx.translation) = naxes

\* every transform before the first one with a path is well formed
PathComesFirst(transforms, naxes) ==
    \E j \in PathPositions(transforms) :
        \A k \in 1..(j - 1) : WellFormed(transforms[k], naxes)

CoordsFromTransformsDone == op = "coords_from_transforms" /\ origin.op = "none"

\* C17 as stated: a chain holding a transform with a path is rejected with
\* the error about the path, whatever the rest of the chain, the axes and
\* the shape are.
C17_PathAlwaysRejected ==
    (CoordsFromTransformsDone /\ PathPositions(args.transforms) # {}) =>
        /\ ret.status = "ValueError"
        /\ ret.msg = "path"

\* C17: for a chain holding a transform with a path, on at least one axis
\* and a shape with one entry per axis, coords_from_transforms raises
\* ValueError and returns no coordinates; the error is the one about the path
\* exactly when every transform before the first one with a path is a
\* literal scale or translation with one parameter per axis or the identity
\* (otherwise it is the error of an earlier transform). With a shape of
\* another length the error is the one about axes and shape; with no axes
\* and an empty shape the empty tuple of coordinates is returned.
C17_PathRejected ==
    (CoordsFromTransformsDone /\ PathPositions(args.transforms) # {}) =>
        LET naxes == Len(args.axes)
        IN  IF naxes # Len(args.shape)
            THEN ret = [status |-> "ValueError", msg |-> "axes and shape"]
            ELSE IF naxes = 0
            THEN ret = [status |-> "ok", coords |-> <<>>]
            ELSE /\ ret.status = "ValueError"
                 /\ DOMAIN ret = {"status", "msg"}
                 /\ ret.msg = "path" <=> PathComesFirst(args.transforms, naxes)

\* a path after an accepted transform, on two axes: the error about the path
C17_Witness ==
    /\ CoordsFromTransformsDone
    /\ Len(args.axes) = 2
    /\ Len(args.shape) = 2
    /\ Len(args.transforms) = 2
    /\ ~HasPath(args.transforms[1])
    /\ HasPath(args.transforms[2])
    /\ ret = [status |-> "ValueError", msg |-> "path"]

\* the positions of the chain holding a literal scale or translation whose
\* number of parameters is not the number of axes
LengthPositions(transforms, naxes) ==
    { j \in 1..Len(transforms) :
        /\ ~HasPath(transforms[j])
        /\ \/ transforms[j].type = "scale" /\ Len(transforms[j].scale) # naxes
           \/ transforms[j].type = "translation" /\ Len(transforms[j].translation) # naxes }

LengthError(tx) == IF tx.type = "scale" THEN "scale length" ELSE "translation length"

\* C18 as stated: a chain holding a scale or a translation whose number of
\* parameters is not the number of axes is rejected with the error about
\* that length, for every number of axes, zero included.
C18_LengthAlwaysRejected ==
    (CoordsFromTransformsDone
     /\ LengthPositions(args.transforms, Len(args.axes)) # {}) =>
        /\ ret.status = "ValueError"
        /\ ret.msg \in {"scale length", "translation length"}

\* C18: for a chain holding a scale or a translation whose number of
\* parameters is not the number of axes, on at least one axis and a shape
\* with one entry per axis, coords_from_transforms raises ValueError; the
\* error is the one about the length of the first such transform exactly
\* when every transform before it is well formed, and otherwise the error
\* about a path or an unknown type of an earlier transform. With a shape of
\* another length the error is the one about axes and shape; with no axes
\* and an empty shape no error is raised and the empty tuple is returned.
C18_LengthRejected ==
    (CoordsFromTransformsDone
     /\ LengthPositions(args.transforms, Len(args.axes)) # {}) =>
        LET naxes == Len(args.axes)
            positions == LengthPositions(args.transforms, naxes)
            first == CHOOSE j \in positions : \A k \in positions : j <= k
        IN  IF naxes # Len(args.shape)
            THEN ret = [status |-> "ValueError", msg |-> "axes and shape"]
            ELSE IF naxes = 0
            THEN ret = [status |-> "ok", coords |-> <<>>]
            ELSE /\ ret.status = "ValueError"
                 /\ DOMAIN ret = {"status", "msg"}
                 /\ IF \A k \in 1..(first - 1) : WellFormed(args.transforms[k], naxes)
                    THEN ret.msg = LengthError(args.transforms[first])
                    ELSE ret.msg \in {"path", "transform type"}

\* a translation of two offsets after a scale of one factor, on one axis
C18_Witness ==
    /\ CoordsFromTransformsDone
    /\ Len(args.axes) = 1
    /\ Len(args.shape) = 1
    /\ Len(args.transforms) = 2
    /\ WellFormed(args.transforms[1], 1)
    /\ args.transforms[2] = VectorTranslation(Zeros(2))
    /\ ret = [status |-> "ValueError", msg |-> "translation length"]

-----------------------------------------------------------------------------
(* Properties of the Axis an encoder infers from the attributes of a        *)
(* coordinate.                                                               *)

Encoders == {"transforms_from_coords", "coords_to_transforms", "create_transforms"}

\* an encoder has returned axes
Encoded == op \in Encoders /\ ret.status = "ok"

\* the number of entries of a sequence equal to x
Count(q, x) == Cardinality({k \in 1..Len(q) : q[k] = x})

\* the unit named first by 'unit', then by 'units'
UnitFirst(attrs) ==
    IF AttrGet(attrs, "unit") # None THEN AttrGet(attrs, "unit")
    ELSE AttrGet(attrs, "units")

\* the unit as the call leaves it: the canonical name when normalize_units
AsLeft(unit) ==
    IF args.normalize_units /\ unit # None THEN ureg_get_name(unit) ELSE unit

\* the coordinates with 'units' and no 'unit', and those with both
FallsBack(coords) ==
    { i \in 1..Len(coords) : AttrGet(coords[i].attrs, "unit") = None
                             /\ AttrGet(coords[i].attrs, "units") # None }
BothKeys(coords) ==
    { i \in 1..Len(coords) : AttrGet(coords[i].attrs, "unit") # None
                             /\ AttrGet(coords[i].attrs, "units") # None }

\* the unit is read from 'unit', else from 'units', with a warning for each
\* coordinate that falls back and for each that has both
ReadsUnitFirst ==
    /\ \A i \in 1..Len(args.coords) :
           ret.axes[i].unit = AsLeft(UnitFirst(args.coords[i].attrs))
    /\ Count(ret.warnings, "units for unit") = Cardinality(FallsBack(args.coords))
    /\ Count(ret.warnings, "unit and units") = Cardinality(BothKeys(args.coords))

\* C19: every encoder, transforms_from_coords of v04 included, reads the
\* unit of an Axis from 'unit', else from 'units', and warns once for each
\* coordinate where it falls back and once for each that has both keys.
C19_UnitKeyEveryVariant == Encoded => ReadsUnitFirst

\* the Axis type of a coordinate with the attributes attrs whose Axis has
\* the unit unit: 'type' if set, else space or time when inferred from a
\* unit of exactly that one base dimension, else unset
TypeOfOneDimension(attrs, unit, infer_axis_type) ==
    IF AttrGet(attrs, "type") # None THEN AttrGet(attrs, "type")
    ELSE IF infer_axis_type /\ unit # None /\ ureg_get_dimensionality(unit) = {"[length]"}
    THEN "space"
    ELSE IF infer_axis_type /\ unit # None /\ ureg_get_dimensionality(unit) = {"[time]"}
    THEN "time"
    ELSE None

\* C20: the Axis type is the 'type' attribute when it is set; otherwise it
\* is 'space' or 'time' when infer_axis_type and the unit has length or time
\* as its one base dimension; otherwise it is unset.
C20_AxisType ==
    Encoded =>
        \A i \in 1..Len(args.coords) :
            ret.axes[i].type = TypeOfOneDimension(args.coords[i].attrs, ret.axes[i].unit,
                                                  args.infer_axis_type)

\* the unit attribute the running encoder reads on a coordinate
UnitRead(attrs) ==
    IF op = "transforms_from_coords" THEN AttrGet(attrs, "units") ELSE UnitFirst(attrs)

\* the coordinates whose type is to be inferred from a compound unit
CompoundCoords ==
    { i \in 1..Len(args.coords) :
        /\ AttrGet(args.coords[i].attrs, "type") = None
        /\ UnitRead(args.coords[i].attrs) \in CompoundUnits }

\* C21: when the type of an axis is inferred from a compound unit, the
\* encoder returns, the Axis type is unset and a warning about the compound
\* unit is emitted.
C21_CompoundUnit ==
    (op \in Encoders /\ args.infer_axis_type /\ CompoundCoords # {}) =>
        /\ ret.status = "ok"
        /\ \A i \in CompoundCoords : ret.axes[i].type = None
        /\ Count(ret.warnings, "compound unit") = Cardinality(CompoundCoords)

-----------------------------------------------------------------------------
(* Properties of the group of a pyramid.                                     *)

\* C22: for levels of one rank, the multiscale of the group model_group
\* builds has the axes and the datasets, in the same order, of the
\* Multiscale multiscale_metadata builds for the same arrays, and the group
\* has one member per level.
C22_GroupMetadataIsAssembly ==
    (op = "model_group" /\ ret.status = "ok"
     /\ Cardinality(RanksOf(args.arrays)) = 1
     /\ multiscale_metadata(args.arrays, TRUE, TRUE, NoPrecision, args.strict).status = "ok") =>
        /\ Len(ret.attrs.multiscales) = 1
        /\ ret.attrs.multiscales[1].axes
            = multiscale_metadata(args.arrays, TRUE, TRUE, NoPrecision, args.strict).multiscale.axes
        /\ ret.attrs.multiscales[1].datasets
            = multiscale_metadata(args.arrays, TRUE, TRUE, NoPrecision, args.strict).multiscale.datasets
        /\ Len(ret.members) = Len(args.arrays)
        /\ \A i \in 1..Len(args.arrays) :
               /\ ret.members[i].path = args.arrays[i].path
               /\ ret.members[i].array.shape = args.arrays[i].array.shape

\* the fields of the results of the functions
ResultFields == {"axes", "transforms", "coords", "multiscale", "group", "attrs", "members"}

\* C23: a call of transforms_from_coords, multiscale_metadata,
\* coords_from_transforms or create_group that raises returns nothing, and a
\* create_group that raises leaves the store as it was: no group, no
\* metadata, no array.
C23_AllOrNothing ==
    /\ (/\ op \in {"transforms_from_coords", "multiscale_metadata",
                   "coords_from_transforms", "create_group"}
        /\ ret.status # "ok") =>
            DOMAIN ret \cap ResultFields = {}
    /\ (op = "create_group" /\ ret.status # "ok") => store = EmptyStore(args.fs)

\* create_group on a directory store raised on the second level, whose
\* coordinate has no dimension
C23_Witness ==
    /\ op = "create_group"
    /\ args.fs
    /\ args.arrays[1].array.coords[1].dims = <<"y">>
    /\ args.arrays[2].array.coords[1].dims = <<>>
    /\ ret = [status |-> "ValueError"]
    /\ store = EmptyStore(TRUE)

-----------------------------------------------------------------------------
(* Properties of the registry.                                               *)

\* the module of the functions of a version tag
ModuleOfVersion(version) ==
    IF version = "0.4" THEN <<"xarray_ome_ngff", "v04", "multiscale">>
    ELSE <<"xarray_ome_ngff", "latest", "multiscales">>

\* C24: get_adapters returns the three functions of the module of the
\* version: of v04 for '0.4', of latest for '0.5-dev' and 'latest' (with
\* ngff_version '0.5-dev'); for any other tag it raises ValueError.
C24_AdaptersOfVersion ==
    op = "get_adapters" =>
        IF args.version \in {"0.4", "0.5-dev", "latest"}
        THEN /\ ret.status = "ok"
             /\ ret.ngff_version = IF args.version = "0.4" THEN "0.4" ELSE "0.5-dev"
             /\ \A f \in {"multiscale_metadata", "transforms_to_coords",
                          "coords_to_transforms"} :
                    /\ ret[f].module = ModuleOfVersion(args.version)
                    /\ ret[f].module \in Modules
        ELSE ret.status = "ValueError"

-----------------------------------------------------------------------------
(* Properties of the order and of the frame of a Multiscale.                 *)

\* the position of the dataset of a path
PositionOf(path) ==
    CHOOSE k \in 1..Len(ret.multiscale.datasets) : ret.multiscale.datasets[k].path = path

\* the levels were supplied under distinct paths, by key or by name
DistinctPaths ==
    /\ args.version = "v04" \/ args.array_paths.isNone
    /\ \A i, j \in 1..Len(args.arrays) : i # j => SuppliedPath(i) # SuppliedPath(j)

\* C25: levels of the same element count keep, in the datasets, the order
\* they have in the input.
C25_StableOrder ==
    (BuiltMultiscale /\ DistinctPaths) =>
        \A i, j \in 1..Len(args.arrays) :
            (i < j /\ Prod(args.arrays[i].array.shape) = Prod(args.arrays[j].array.shape))
                => PositionOf(SuppliedPath(i)) < PositionOf(SuppliedPath(j))

\* the Axis list the encoder of the variant infers from an array
InferredAxes(array) ==
    IF args.version = "v04"
    THEN transforms_from_coords(array.coords, TRUE, TRUE, NoPrecision).axes
    ELSE coords_to_transforms(array.coords, TRUE, TRUE).axes

\* the levels of the greatest element count
Largest ==
    { i \in 1..Len(args.arrays) :
        \A j \in 1..Len(args.arrays) :
            Prod(args.arrays[i].array.shape) >= Prod(args.arrays[j].array.shape) }

\* the level that comes first after ordering: of the largest, the first
\* listed in v04 and the last listed in the other variants
FirstAfterOrdering ==
    IF args.version = "v04"
    THEN CHOOSE i \in Largest : \A j \in Largest : i <= j
    ELSE CHOOSE i \in Largest : \A j \in Largest : i >= j

\* one Scale of as many factors 1 as the levels have dimensions
AllOnes == Chain(<<VectorScale([i \in 1..Len(args.arrays[1].array.shape) |-> 1])>>)

\* C26 as stated: every Multiscale that is built has the base chain of one
\* Scale of factors 1, one per dimension, and the axes of a largest level.
C26_BaseChainEveryVariant ==
    BuiltMultiscale =>
        /\ ret.multiscale.coordinateTransformations = AllOnes
        /\ ret.multiscale.axes \in { InferredAxes(args.arrays[i].array) : i \in Largest }

\* C26: a Multiscale built by multiscale_metadata of latest or by
\* create_multiscale of v05 has the base chain of one Scale of factors 1,
\* one per dimension; one built by multiscale_metadata of v04 has no base
\* chain; in every variant the axes are those inferred from the level that
\* comes first after ordering.
C26_BaseChain ==
    BuiltMultiscale =>
        /\ ret.multiscale.coordinateTransformations
            = IF args.version = "v04" THEN NoneChain ELSE AllOnes
        /\ ret.multiscale.axes = InferredAxes(args.arrays[FirstAfterOrdering].array)

\* two levels listed coarse first, in latest: the base chain has two
\* factors 1 and the axes are those of the fine level
C26_Witness ==
    /\ BuiltMultiscale
    /\ args.version = "latest"
    /\ Len(args.arrays) = 2
    /\ args.arrays[1].array.shape = <<2, 2>>
    /\ args.arrays[2].array.shape = <<3, 3>>
    /\ args.arrays[1].array.coords[1].attrs.units = "nanometer"
    /\ args.arrays[2].array.coords[1].attrs.units = "um"
    /\ ret.multiscale.coordinateTransformations = Chain(<<VectorScale(<<1, 1>>)>>)
    /\ ret.multiscale.axes[1].unit = "micrometer"

-----------------------------------------------------------------------------
(* Properties of the fused pair as one transform.                            *)

\* the fused pair was decoded
DecodedFused ==
    op = "coords_from_transforms" /\ origin.op = "fuse_coordinate_transforms"

\* the base chain that was fused, as a tuple
BaseOf(a) == IF a.base_transforms.isNone THEN <<>> ELSE a.base_transforms.chain

\* the coordinates of the dataset chain followed by the base chain
OneAfterTheOther ==
    coords_from_transforms(args.axes,
                           origin.args.dset_transforms \o BaseOf(origin.args), args.shape)

\* C29 as stated: decoding the fused pair gives the coordinates of the two
\* chains applied one after the other, for every base chain.
C29_FusedIsComposition ==
    /\ (op = "fuse_coordinate_transforms" /\ BaseOf(args) # <<>>) => ret.status = "ok"
    /\ DecodedFused => ret = OneAfterTheOther

-----------------------------------------------------------------------------
(* Properties of the readers' frame.                                         *)

\* C30: read_group and read_array are read-only: no step of either, returning
\* or failing, changes what the store holds, and the walk upwards creates no
\* group where it opens an ancestor.
C30_ReadersLeaveStore ==
    [][op' \in {"read_group", "read_array"} => store' = store]_vars

-----------------------------------------------------------------------------
(* Properties of get_parent and iter_parents of core.py.                     *)

GetParentDone == op = "get_parent"

\* the node's location with its last component removed
Above(node) == SplitHead(Location(node))

\* C27 as stated: on a node with a non-empty path the group at the path
\* with its last component removed is returned; on a root node (path '') the
\* call fails, with GroupUnreachableError in a store without path and with
\* GroupNotFoundError in a directory store.
C27_RootAlwaysFails ==
    GetParentDone =>
        IF args.node.path # <<>>
        THEN /\ ret.status = "ok"
             /\ Location(ret.node) = Above(args.node)
             /\ NodeAt(store, Location(ret.node)).kind = "group"
        ELSE ret.status = IF args.node.fs THEN "GroupNotFoundError"
                                          ELSE "GroupUnreachableError"

\* C27: the root node of a store without path gets GroupUnreachableError.
\* Every other node, the root node of a directory store included, gets the
\* group at its location with the last component removed when a group is
\* there, and GroupNotFoundError when neither a group nor an array is there.
\* The same for arrays and groups.
C27_GetParent ==
    GetParentDone =>
        IF ~args.node.fs /\ args.node.path = <<>>
        THEN ret.status = "GroupUnreachableError"
        ELSE CASE NodeAt(store, Above(args.node)).kind = "group" ->
                    /\ ret.status = "ok"
                    /\ Location(ret.node) = Above(args.node)
                    /\ ret.node.fs = args.node.fs
               [] NodeAt(store, Above(args.node)).kind \in {"none", "dir"} ->
                    ret.status = "GroupNotFoundError"
               [] OTHER -> TRUE

\* the root of a directory store whose directory lies in a group: the group
\* is returned
C27_Witness ==
    /\ GetParentDone
    /\ args.node.fs
    /\ args.node.path = <<>>
    /\ Len(args.node.store_path) > Len(StoreDir)
    /\ NodeAt(store, Location(args.node)).kind = "array"
    /\ ret.status = "ok"
    /\ Location(ret.node) = StoreDir

\* the generator ran to its end
IterParentsDone == op = "iter_parents" /\ pc = "done"

\* the locations of the groups yielded so far
YieldedLocations == [i \in 1..Len(ret.yielded) |-> Location(ret.yielded[i])]

\* the locations above a location, nearest first, the root last
NearestFirst(loc) == [i \in 1..Len(loc) |-> SubSeq(loc, 1, Len(loc) - i)]

\* every location above the node, the root included, holds a group
EveryAncestorIsGroup(node) ==
    \A i \in 1..Len(node.path) :
        NodeAt(store, SubSeq(Location(node), 1, Len(Location(node)) - i)).kind = "group"

\* C28: iter_parents yields the ancestors nearest first and each once: a
\* group yielded after another lies strictly above it, so that the generator
\* ends after finitely many groups; it ends without raising; and from a node
\* at depth d of a store in memory whose ancestors are all groups it has
\* yielded, at its end, exactly the d groups above the node, the root last.
C28_IterParents ==
    /\ [][(op = "iter_parents" /\ pc = "iter" /\ pc' = "iter") =>
             /\ Len(ret'.yielded) = Len(ret.yielded) + 1
             /\ Len(Location(parent')) < Len(Location(parent))]_vars
    /\ [](op = "iter_parents" =>
             \A i \in 1..Len(ret.yielded) :
                 YieldedLocations[i]
                    = SubSeq(Location(args.node), 1, Len(Location(args.node)) - i))
    /\ [](IterParentsDone => ret.status = "ok")
    /\ []((IterParentsDone /\ ~args.node.fs /\ EveryAncestorIsGroup(args.node)) =>
             /\ Len(ret.yielded) = Len(args.node.path)
             /\ YieldedLocations = NearestFirst(Location(args.node)))

=============================================================================
